---------------------------- MODULE Spec2Model ----------------------------
(***************************************************************************)
(* Canvas assignment notifier: the aggregation pipeline                    *)
(* (fetch -> window filter -> AI estimate -> sort), the AI adapter, and    *)
(* the Telegram command handlers with their per-user session state.        *)
(*                                                                         *)
(* Values that Python leaves optional are sequences of length 0 or 1:      *)
(* None is <<>>, a present value v is <<v>>.  Instants are integers        *)
(* (ticks); two aware datetimes compare by instant.  A description is a    *)
(* sequence of markup tokens; an LLM reply is a sequence of reply tokens.  *)
(***************************************************************************)
EXTENDS Integers, Sequences, FiniteSets, TLC

VARIABLES
    env,                  \* aggregator run: what Canvas and the LLM will answer
    fetched,              \* aggregator run: outcome of fetch_upcoming_assignments
    adapter,              \* AI adapter run: input, LLM calls made, outcome
    last_assignments,     \* context.user_data['last_assignments'], per user
    message_history,      \* context.user_data['message_history'], per user
    scheduled_assignments,\* bot_data['scheduled_assignments'] (agentic_bot_test_manus)
    check_report,         \* per user: list shown by the last /check report since /start
    last_report,          \* per chat: the most recent list report sent to it
    updates,              \* number of updates and job runs handled so far
    last_run,             \* what the handler or job that ran last did
    startup,              \* where main() is: its step, its settings, what it registered
    dispatch,             \* the Application's update queue and the handlers in flight
    sms,                  \* the SMS notifier: the assignments it reports and its message
    view                  \* the list view: the record it shows and the fields it renders

vars == <<env, fetched, adapter, last_assignments, message_history,
          scheduled_assignments, check_report, last_report, updates, last_run,
          startup, dispatch, sms, view>>

-----------------------------------------------------------------------------
(* Bounds of the model *)

MaxCourses == 2
MaxAssignments == 3
MaxWindowAssignments == 2
MaxDaysAhead == 1
MaxDescLen == 2
MaxReplyLen == 2
TicksPerDay == 2
Now == 10
ZoneOffset == 1
MaxIndex == 3
MaxUpdates == 3
MaxStartupUpdates == 1
MaxQueue == 3
MaxSmsAssignments == 3
MaxBlocks == 3
MaxSegments == 2
MaxTitleLen == 1

(* Program constants *)

max_desc_len == 1000
max_summary_desc_len == 1500
MAX_HISTORY_MESSAGES == 6
max_hour == 23
max_minute == 59
max_len == 1000
more_marker_len == 30
truncated_marker_len == 12
sms_limit == 150
course_short_len == 25

-----------------------------------------------------------------------------
(* Optional values and small helpers *)

None == <<>>
Some(v) == <<v>>
IsNone(o) == o = <<>>
Get(o) == o[1]

SeqsUpTo(S, n) == UNION {[1..k -> S] : k \in 0..n}

Outcomes == {"ok", "CanvasException", "Exception"}

-----------------------------------------------------------------------------
(* Text sanitizer: clean_html.  Description tokens:                         *)
(*   "script"  a whole <script>..</script> or <style>..</style> block       *)
(*   "tag"     any other markup tag                                         *)
(*   "ent"     a character entity that decodes to a visible character       *)
(*   "nbsp"    a character entity that decodes to whitespace                *)
(*   "ws"      a whitespace character                                       *)
(*   "txt"     a visible character                                          *)

DescTokens == {"script", "tag", "ent", "nbsp", "ws", "txt"}

RECURSIVE remove_script_blocks(_)
remove_script_blocks(s) ==
    IF s = <<>> THEN <<>>
    ELSE IF Head(s) = "script" THEN remove_script_blocks(Tail(s))
    ELSE <<Head(s)>> \o remove_script_blocks(Tail(s))

strip_tags(s) == [i \in 1..Len(s) |-> IF s[i] = "tag" THEN "ws" ELSE s[i]]

unescape(s) ==
    [i \in 1..Len(s) |-> CASE s[i] = "ent" -> "txt"
                           [] s[i] = "nbsp" -> "ws"
                           [] OTHER -> s[i]]

RECURSIVE collapse_whitespace(_)
collapse_whitespace(s) ==
    IF Len(s) < 2 THEN s
    ELSE IF s[1] = "ws" /\ s[2] = "ws" THEN collapse_whitespace(Tail(s))
    ELSE <<Head(s)>> \o collapse_whitespace(Tail(s))

RECURSIVE lstrip(_)
lstrip(s) == IF s # <<>> /\ Head(s) = "ws" THEN lstrip(Tail(s)) ELSE s

RECURSIVE rstrip(_)
rstrip(s) ==
    IF s # <<>> /\ s[Len(s)] = "ws" THEN rstrip(SubSeq(s, 1, Len(s) - 1)) ELSE s

strip(s) == rstrip(lstrip(s))

clean_html(raw_html) ==
    IF raw_html = <<>> THEN <<>>
    ELSE strip(collapse_whitespace(unescape(strip_tags(remove_script_blocks(raw_html)))))

Ellipsis == <<"txt", "txt", "txt">>

truncate(s, n) == IF Len(s) > n THEN SubSeq(s, 1, n) \o Ellipsis ELSE s

-----------------------------------------------------------------------------
(* Date/time normalizer: parse_iso_datetime.  A due_at string is a record   *)
(* [fmt, wall, off]: "absent" (None or empty), "invalid" (fromisoformat     *)
(* raises ValueError), "Z" (wall clock followed by Z), "naive" (no          *)
(* designator) or "offset" (wall clock followed by the UTC offset off).     *)

DueAt(fmt, wall, off) == [fmt |-> fmt, wall |-> wall, off |-> off]

parse_iso_datetime(date_string) ==
    CASE date_string.fmt = "absent" -> None
      [] date_string.fmt = "invalid" -> None
      [] date_string.fmt = "Z" -> Some(date_string.wall - 0)
      [] date_string.fmt = "naive" -> Some(date_string.wall)
      [] date_string.fmt = "offset" -> Some(date_string.wall - date_string.off)

-----------------------------------------------------------------------------
(* AI estimation adapter.  A description is [kind, toks]: kind "None", "str"*)
(* or "other" (a value that is not a string).  The LLM's answer is          *)
(* [ok, text]: ok = FALSE is a transport or endpoint failure; text is a     *)
(* sequence of reply tokens [num, v], v in hundredths of an hour.           *)

Desc(kind, toks) == [kind |-> kind, toks |-> toks]
NoDescription == Desc("None", <<>>)
Falsy(description) ==
    description.kind = "None" \/ (description.kind = "str" /\ description.toks = <<>>)

Word == [num |-> FALSE, v |-> 0]
Num(h) == [num |-> TRUE, v |-> h]

RECURSIVE first_number(_)
first_number(text) ==
    IF text = <<>> THEN None
    ELSE IF Head(text).num THEN Some(Head(text).v)
    ELSE first_number(Tail(text))

(* round(x, 1) on a value given in hundredths, result in tenths *)
round1(h) ==
    LET q == h \div 10
        r == h % 10
    IN  IF r < 5 THEN q
        ELSE IF r > 5 THEN q + 1
        ELSE IF q % 2 = 0 THEN q ELSE q + 1

AdapterOut(raised, calls, value) == [raised |-> raised, calls |-> calls, value |-> value]

sanitize_for_estimate(description) == truncate(clean_html(description.toks), max_desc_len)

parse_estimate(llm) ==
    IF ~llm.ok THEN None
    ELSE LET m == first_number(llm.text)
         IN  IF IsNone(m) THEN None ELSE Some(round1(Get(m)))

estimate_llm_failure_propagates(description, llm) ==
    IF Falsy(description) THEN AdapterOut(FALSE, <<>>, None)
    ELSE IF description.kind = "other" THEN AdapterOut(TRUE, <<>>, None)
    ELSE LET clean_description == sanitize_for_estimate(description)
         IN  IF clean_description = <<>> THEN AdapterOut(FALSE, <<>>, None)
             ELSE IF ~llm.ok THEN AdapterOut(TRUE, <<clean_description>>, None)
             ELSE AdapterOut(FALSE, <<clean_description>>, parse_estimate(llm))

estimate_time_via_ai(description, llm) ==
    IF Falsy(description) THEN AdapterOut(FALSE, <<>>, None)
    ELSE IF description.kind = "other" THEN AdapterOut(TRUE, <<>>, None)
    ELSE LET clean_description == sanitize_for_estimate(description)
         IN  IF clean_description = <<>> THEN AdapterOut(FALSE, <<>>, None)
             ELSE AdapterOut(FALSE, <<clean_description>>, parse_estimate(llm))

sanitize_for_summary(description) == truncate(clean_html(description.toks), max_summary_desc_len)

summarize_assignment_via_ai(description, llm) ==
    IF Falsy(description) THEN AdapterOut(FALSE, <<>>, None)
    ELSE IF description.kind = "other" THEN AdapterOut(TRUE, <<>>, None)
    ELSE LET clean_description == sanitize_for_summary(description)
         IN  IF clean_description = <<>> THEN AdapterOut(FALSE, <<>>, None)
             ELSE AdapterOut(FALSE, <<clean_description>>,
                             IF llm.ok THEN Some(llm.text) ELSE None)

(* canvas_messeger.py: the description goes into the prompt as it is *)
sms_estimate_time_via_ai(description, llm) ==
    IF Falsy(description) THEN AdapterOut(FALSE, <<>>, None)
    ELSE AdapterOut(FALSE, <<description.toks>>, parse_estimate(llm))

-----------------------------------------------------------------------------
(* Assignment aggregator: fetch_upcoming_assignments (AI_BotV2.py).         *)
(* env = [connect, get_courses, days_ahead, now, courses]; connect and      *)
(* get_courses are outcomes of the Canvas calls; a course is                *)
(* [id, get_assignments, assignments]; an assignment is                     *)
(* [id, due_at, description, llm], llm being what the LLM would answer.     *)

Raised(exc, calls) == [raised |-> TRUE, exc |-> exc, assignments |-> <<>>, calls |-> calls]
Returned(list, calls) == [raised |-> FALSE, exc |-> "none", assignments |-> list, calls |-> calls]

due_threshold(now_local, days_ahead) == now_local + days_ahead * TicksPerDay

in_window_strict_upper(due_datetime_local, now_local, due_threshold_local) ==
    /\ ~IsNone(due_datetime_local)
    /\ now_local <= Get(due_datetime_local)
    /\ Get(due_datetime_local) < due_threshold_local

(* due_datetime_local and now_local <= due_datetime_local <= due_threshold_local *)
in_window(due_datetime_local, now_local, due_threshold_local) ==
    /\ ~IsNone(due_datetime_local)
    /\ now_local <= Get(due_datetime_local)
    /\ Get(due_datetime_local) <= due_threshold_local

AssignmentRecord(course, assignment, due, estimated_hours) ==
    [course_id |-> course.id,
     assignment_id |-> assignment.id,
     due_date_local |-> due,
     description |-> assignment.description,
     estimated_hours |-> estimated_hours]

(* The loop over one course's assignments; acc = [list, calls, failed].     *)
(* An exception leaves the loop: what was appended before it stays.         *)
RECURSIVE process_assignments(_, _, _, _)
process_assignments(e, course, k, acc) ==
    IF k > Len(course.assignments) THEN acc
    ELSE LET assignment == course.assignments[k]
             due_datetime_local == parse_iso_datetime(assignment.due_at)
         IN  IF in_window(due_datetime_local, e.now, due_threshold(e.now, e.days_ahead))
             THEN LET est == estimate_time_via_ai(assignment.description, assignment.llm)
                  IN  IF est.raised
                      THEN [acc EXCEPT !.failed = TRUE]
                      ELSE process_assignments(e, course, k + 1,
                             [acc EXCEPT
                                !.list = Append(@, AssignmentRecord(course, assignment,
                                                     Get(due_datetime_local), est.value)),
                                !.calls = @ \o est.calls])
             ELSE process_assignments(e, course, k + 1, acc)

(* The body of the try block for one course; failed says an exception       *)
(* (from get_assignments or from the loop) reached the except clauses.      *)
process_course(e, course, acc) ==
    IF course.get_assignments # "ok" THEN [acc EXCEPT !.failed = TRUE]
    ELSE process_assignments(e, course, 1, acc)

RECURSIVE process_courses_abort_on_failure(_, _, _)
process_courses_abort_on_failure(e, c, acc) ==
    IF c > Len(e.courses) \/ acc.failed THEN acc
    ELSE process_courses_abort_on_failure(e, c + 1, process_course(e, e.courses[c], acc))

RECURSIVE process_courses_skip_failed(_, _, _)
process_courses_skip_failed(e, c, acc) ==
    IF c > Len(e.courses) THEN acc
    ELSE LET r == process_course(e, e.courses[c], acc)
         IN  process_courses_skip_failed(e, c + 1, IF r.failed THEN acc ELSE r)

(* for course in courses: try ... except CanvasException / except Exception: *)
(* the error is logged and the loop continues with the next course.          *)
RECURSIVE process_courses(_, _, _)
process_courses(e, c, acc) ==
    IF c > Len(e.courses) THEN acc
    ELSE process_courses(e, c + 1,
            [process_course(e, e.courses[c], acc) EXCEPT !.failed = FALSE])

(* list.sort(key = due_date_local): stable, ascending *)
RECURSIVE insert_by_due(_, _)
insert_by_due(sorted, x) ==
    IF sorted = <<>> THEN <<x>>
    ELSE IF sorted[Len(sorted)].due_date_local <= x.due_date_local
         THEN Append(sorted, x)
         ELSE Append(insert_by_due(SubSeq(sorted, 1, Len(sorted) - 1), x),
                     sorted[Len(sorted)])

sort_omitted(list) == list

RECURSIVE sort_by_due(_)
sort_by_due(list) ==
    IF list = <<>> THEN <<>>
    ELSE insert_by_due(sort_by_due(SubSeq(list, 1, Len(list) - 1)), list[Len(list)])

connect_swallowed(e) == "ok"

(* Canvas(url, token) and canvas.get_current_user(): any failure is re-raised *)
connect(e) == e.connect

(* canvas.get_courses(...) and list(...): only CanvasException is caught *)
enumerate_courses(e) ==
    CASE e.get_courses = "ok" -> "ok"
      [] e.get_courses = "CanvasException" -> "empty"
      [] OTHER -> "raise"

fetch_upcoming_assignments(e) ==
    IF connect(e) # "ok" THEN Raised(connect(e), <<>>)
    ELSE CASE enumerate_courses(e) = "empty" -> Returned(<<>>, <<>>)
           [] enumerate_courses(e) = "raise" -> Raised(e.get_courses, <<>>)
           [] OTHER ->
                LET acc == process_courses(e, 1, [list |-> <<>>, calls |-> <<>>, failed |-> FALSE])
                IN  Returned(sort_by_due(acc.list), acc.calls)

-----------------------------------------------------------------------------
(* Inputs of an aggregation run *)

MkAssignment(id, due_at, description, llm) ==
    [id |-> id, due_at |-> due_at, description |-> description, llm |-> llm]

MkCourse(id, outcome, assignments) ==
    [id |-> id, get_assignments |-> outcome, assignments |-> assignments]

MkEnv(c, g, days_ahead, courses) ==
    [connect |-> c, get_courses |-> g, days_ahead |-> days_ahead, now |-> Now,
     courses |-> courses]

AssignmentId(c, k) == 10 * c + k

DaysAheadValues == (-1)..MaxDaysAhead

NoReply == [ok |-> FALSE, text |-> <<>>]
ReplyTokens == {Word, Num(0), Num(25), Num(274)}
Replies == {NoReply} \cup {[ok |-> TRUE, text |-> t] : t \in SeqsUpTo(ReplyTokens, MaxReplyLen)}

Descriptions ==
    {NoDescription, Desc("other", <<>>)}
        \cup {Desc("str", t) : t \in SeqsUpTo(DescTokens, MaxDescLen)}

PlainText == Desc("str", <<"txt">>)

(* due_at strings around the two ends of the window, in every format *)
InstantsAround(days) ==
    LET thr == due_threshold(Now, days)
    IN  {Now - 1, Now, Now + 1, thr - 1, thr, thr + 1}

DueAts(days) ==
    {DueAt("absent", 0, 0), DueAt("invalid", 0, 0)}
        \cup {DueAt("Z", t, 0) : t \in InstantsAround(days)}
        \cup {DueAt("naive", t, 0) : t \in InstantsAround(days)}
        \cup {DueAt("offset", t - ZoneOffset, 0 - ZoneOffset) : t \in InstantsAround(days)}

(* one course, every due_at, no description *)
WindowEnv(days, dues) ==
    MkEnv("ok", "ok", days,
          <<MkCourse(1, "ok",
              [k \in 1..Len(dues) |->
                  MkAssignment(AssignmentId(1, k), dues[k], NoDescription, NoReply)])>>)

(* several courses, each failing or not, a few assignments in all *)
Shapes ==
    {[due |-> Now - 1, description |-> NoDescription],
     [due |-> Now, description |-> NoDescription],
     [due |-> Now + 1, description |-> NoDescription],
     [due |-> Now, description |-> Desc("other", <<>>)]}

Splits(n, len) ==
    {o \in [1..len -> 1..n] : \A i \in 1..len : \A j \in 1..len : i < j => o[i] <= o[j]}

RECURSIVE SelectSeq2(_, _, _)
SelectSeq2(flat, owner, c) ==
    IF flat = <<>> THEN <<>>
    ELSE LET rest == SelectSeq2(SubSeq(flat, 1, Len(flat) - 1),
                                SubSeq(owner, 1, Len(flat) - 1), c)
         IN  IF owner[Len(flat)] = c THEN Append(rest, flat[Len(flat)]) ELSE rest

ShapedCourse(c, outcome, shapes) ==
    MkCourse(c, outcome,
        [k \in 1..Len(shapes) |->
            MkAssignment(AssignmentId(c, k), DueAt("Z", shapes[k].due, 0),
                         shapes[k].description, NoReply)])

(* n courses; the assignments of flat are dealt to them, in order, by owner *)
CourseEnv(n, flat, owner, outs) ==
    MkEnv("ok", "ok", MaxDaysAhead,
          [c \in 1..n |-> ShapedCourse(c, outs[c], SelectSeq2(flat, owner, c))])

(* failures of the connectivity check and of the course enumeration *)
OneCourse ==
    <<MkCourse(1, "ok",
        <<MkAssignment(AssignmentId(1, 1), DueAt("Z", Now, 0), NoDescription, NoReply)>>)>>

OutcomeEnvs ==
    {MkEnv(c, g, MaxDaysAhead, cs) : c \in Outcomes, g \in Outcomes, cs \in {<<>>, OneCourse}}

(* every description and every LLM answer for the first of three assignments *)
EnrichEnv(d, l) ==
    MkEnv("ok", "ok", MaxDaysAhead,
        <<MkCourse(1, "ok",
            <<MkAssignment(AssignmentId(1, 1), DueAt("Z", Now + 1, 0), d, l),
              MkAssignment(AssignmentId(1, 2), DueAt("Z", Now, 0), PlainText,
                           [ok |-> TRUE, text |-> <<Num(300)>>])>>),
          MkCourse(2, "ok",
            <<MkAssignment(AssignmentId(2, 1), DueAt("Z", Now, 0), NoDescription, NoReply)>>)>>)

-----------------------------------------------------------------------------
(* Configuration: the environment's settings and load_configuration *)

(* the text of a numeric setting: int() either parses it or raises ValueError *)
IntText(n) == [int |-> TRUE, value |-> n]
NotInt == [int |-> FALSE, value |-> 0]

NumericTexts(values) == {NotInt} \cup {IntText(n) : n \in values}

(* the values on both sides of each end of a range *)
DaysAheadTexts == NumericTexts(DaysAheadValues)
HourTexts == NumericTexts({-1, 0, max_hour, max_hour + 1})
MinuteTexts == NumericTexts({-1, 0, max_minute, max_minute + 1})

(* os.environ after load_dotenv: whether a setting without default is absent,
   the three numeric settings, whether APP_TIMEZONE names a zone and whether
   Telegram accepts the bot token *)
Settings(missing, days, hour, minute, zone, token) ==
    [missing |-> missing, DAYS_AHEAD |-> days, CHECK_HOUR |-> hour, CHECK_MINUTE |-> minute,
     APP_TIMEZONE |-> zone, TELEGRAM_BOT_TOKEN |-> token]

NoConfig == [DAYS_AHEAD |-> 0, CHECK_HOUR |-> 0, CHECK_MINUTE |-> 0]
ConfigError(exc) == [ok |-> FALSE, exc |-> exc, config |-> NoConfig]
Loaded(settings) ==
    [ok |-> TRUE, exc |-> "none",
     config |-> [DAYS_AHEAD |-> settings.DAYS_AHEAD.value,
                 CHECK_HOUR |-> settings.CHECK_HOUR.value,
                 CHECK_MINUTE |-> settings.CHECK_MINUTE.value]]

(* 0 <= hour <= 23 and 0 <= minute <= 59 *)
valid_time(hour, minute) == 0 <= hour /\ hour <= max_hour /\ 0 <= minute /\ minute <= max_minute

(* AI_BotV2.load_configuration *)
load_configuration(settings) ==
    IF settings.missing THEN ConfigError("EnvironmentError")
    ELSE IF ~settings.DAYS_AHEAD.int \/ ~settings.CHECK_HOUR.int \/ ~settings.CHECK_MINUTE.int
    THEN ConfigError("ValueError")
    ELSE IF ~valid_time(settings.CHECK_HOUR.value, settings.CHECK_MINUTE.value)
    THEN ConfigError("ValueError")
    ELSE Loaded(settings)

(* canvas_messeger.load_configuration *)
sms_load_configuration(settings) ==
    IF settings.missing THEN ConfigError("EnvironmentError")
    ELSE IF ~settings.DAYS_AHEAD.int THEN ConfigError("ValueError")
    ELSE IF ~settings.CHECK_HOUR.int \/ ~settings.CHECK_MINUTE.int
    THEN ConfigError("ValueError")
    ELSE IF ~valid_time(settings.CHECK_HOUR.value, settings.CHECK_MINUTE.value)
    THEN ConfigError("ValueError")
    ELSE Loaded(settings)


(* the settings the running bot of the other specifications was started with *)
DefaultSettings == Settings(FALSE, IntText(MaxDaysAhead), IntText(0), IntText(0), TRUE, TRUE)

(* where main() of a program is: the step it is about to take, what it has
   loaded, whether the daily job is registered, whether a step raised *)
Started(program, settings, pc, config, job_scheduled, fatal) ==
    [program |-> program, settings |-> settings, pc |-> pc, config |-> config,
     job_scheduled |-> job_scheduled, fatal |-> fatal]

Booting(program, settings) == Started(program, settings, "load", NoConfig, FALSE, FALSE)

Polling == Started("bot", DefaultSettings, "polling", Loaded(DefaultSettings).config, TRUE, FALSE)

-----------------------------------------------------------------------------
(* State of the three machines when idle *)

NoEnv == MkEnv("ok", "ok", 0, <<>>)
NotFetched == [done |-> FALSE, out |-> Returned(<<>>, <<>>)]
AdapterIdle == [op |-> "idle", description |-> NoDescription, llm |-> NoReply,
                out |-> AdapterOut(FALSE, <<>>, None)]

(* one chat session, the one the daily job reports to: the framework keeps
   user_data per user and hands each handler only its own *)
Users == {1}
TELEGRAM_CHAT_ID == 1
EmptyDict == <<>>

(* what the last handler or job did: its inputs and the messages it sent *)
NoRun ==
    [handler |-> "none", user |-> 0, connect |-> "ok", fetch |-> "not_run",
     stored |-> FALSE, prev_size |-> 0, list_msgs |-> 0, notices |-> 0,
     escaped |-> FALSE, outcome |-> "none", index |-> 0, source |-> "none",
     notice |-> "none", api_calls |-> 0, detail_msgs |-> 0, range |-> <<>>,
     at_llm |-> <<>>, prev_turns |-> 0, exc |-> "none",
     prompt |-> <<>>]

(* the SMS notifier before it has anything to report *)
NoMessage ==
    [days_ahead |-> 0, assignments |-> <<>>, formatted |-> FALSE, message |-> <<>>,
     sent |-> <<>>]

(* the list view before it has rendered anything *)
NoView == [assignment_name |-> <<>>, course_name |-> <<>>, rendered |-> <<>>]

(* no update waiting and no handler in flight *)
NoUpdates == [queue |-> <<>>, running |-> <<>>, dispatched |-> 0]

BotIdle ==
    /\ last_assignments = [u \in Users |-> EmptyDict]
    /\ message_history = [u \in Users |-> <<>>]
    /\ scheduled_assignments = EmptyDict
    /\ check_report = [u \in Users |-> None]
    /\ last_report = [u \in Users |-> None]
    /\ updates = 0
    /\ last_run = NoRun
    /\ startup = Polling
    /\ dispatch = NoUpdates
    /\ sms = NoMessage
    /\ view = NoView

botVars == <<last_assignments, message_history, scheduled_assignments,
             check_report, last_report, updates, last_run, startup, dispatch, sms, view>>

-----------------------------------------------------------------------------
(* The aggregator on its own: one run of fetch_upcoming_assignments *)

InitFetch ==
    /\ \/ \E days \in DaysAheadValues :
            \E dues \in SeqsUpTo(DueAts(days), MaxWindowAssignments) :
                env = WindowEnv(days, dues)
       \/ \E n \in 1..MaxCourses : \E flat \in SeqsUpTo(Shapes, MaxAssignments) :
            \E owner \in Splits(n, Len(flat)) : \E outs \in [1..n -> Outcomes] :
                env = CourseEnv(n, flat, owner, outs)
       \/ env \in OutcomeEnvs
       \/ \E d \in Descriptions : \E l \in Replies : env = EnrichEnv(d, l)
    /\ fetched = NotFetched
    /\ adapter = AdapterIdle
    /\ BotIdle

RunFetch ==
    /\ ~fetched.done
    /\ fetched' = [done |-> TRUE, out |-> fetch_upcoming_assignments(env)]
    /\ UNCHANGED <<env, adapter, botVars>>

NextFetch == RunFetch

SpecFetch == InitFetch /\ [][NextFetch]_vars

-----------------------------------------------------------------------------
(* The AI adapter on its own: one call of an operation *)

InitAdapter ==
    /\ adapter \in {[AdapterIdle EXCEPT !.description = d, !.llm = l] :
                        d \in Descriptions, l \in Replies}
    /\ env = NoEnv
    /\ fetched = NotFetched
    /\ BotIdle

Call(op, out) ==
    /\ adapter.op = "idle"
    /\ adapter' = [adapter EXCEPT !.op = op, !.out = out]
    /\ UNCHANGED <<env, fetched, botVars>>

EstimateHours == Call("estimate", estimate_time_via_ai(adapter.description, adapter.llm))

Summarize == Call("summarize", summarize_assignment_via_ai(adapter.description, adapter.llm))

SmsEstimateHours ==
    Call("sms_estimate", sms_estimate_time_via_ai(adapter.description, adapter.llm))

NextAdapter == EstimateHours \/ Summarize \/ SmsEstimateHours

SpecAdapter == InitAdapter /\ [][NextAdapter]_vars

-----------------------------------------------------------------------------
(* The Telegram bot: per-user context, command handlers, the scheduled job *)

Turn(role, content) == [role |-> role, content |-> content]

keep_oldest(history, role, content) ==
    LET appended == Append(history, Turn(role, content))
    IN  IF Len(appended) > MAX_HISTORY_MESSAGES
        THEN SubSeq(appended, 1, MAX_HISTORY_MESSAGES)
        ELSE appended

(* history.append(...); history[-MAX_HISTORY_MESSAGES:] when longer *)
add_message_to_history(history, role, content) ==
    LET appended == Append(history, Turn(role, content))
    IN  IF Len(appended) > MAX_HISTORY_MESSAGES
        THEN SubSeq(appended, Len(appended) - MAX_HISTORY_MESSAGES + 1, Len(appended))
        ELSE appended

UserData(u) ==
    [last_assignments |-> last_assignments[u], message_history |-> message_history[u]]

(* the outcome of each of the n sends a handler can attempt, in the order it
   attempts them *)
Deliveries(n) == [1..n -> BOOLEAN]

(* what a handler leaves behind: the user's context, whether an exception
   escaped it, and the run it reports *)
Handled(user_data, escaped, run) ==
    [last_assignments |-> user_data.last_assignments,
     message_history |-> user_data.message_history,
     escaped |-> escaped, run |-> [run EXCEPT !.escaped = escaped]]

error_unrecorded(history) == history

(* the Application calls error_handler for an exception that escapes a handler;
   failures inside it are swallowed *)
error_handler(history) == add_message_to_history(history, "bot", "Error processing update")

pop_skipped(dict) == dict

(* context.user_data.pop('last_assignments', None) *)
pop_last_assignments(dict) == EmptyDict

start_command(user_data, net) ==
    LET popped == [last_assignments |-> pop_last_assignments(user_data.last_assignments),
                   message_history |-> <<>>]
        run == [NoRun EXCEPT !.handler = "start",
                             !.prev_size = Cardinality(DOMAIN user_data.last_assignments),
                             !.prev_turns = Len(user_data.message_history)]
    IN  IF net[1]
        THEN Handled([popped EXCEPT !.message_history =
                          add_message_to_history(<<>>, "bot", "Sent welcome message")],
                     FALSE, run)
        ELSE Handled(popped, TRUE, run)

clear_skipped(dict) == dict

(* dict.clear() *)
clear(dict) == EmptyDict

enumerate_from_zero(dict, assignments) ==
    [i \in (DOMAIN dict) \cup 0..(Len(assignments) - 1) |->
        IF i \in 0..(Len(assignments) - 1) THEN assignments[i + 1] ELSE dict[i]]

(* for i, assignment in enumerate(assignments, 1): dict[i] = assignment *)
store_enumerated(dict, assignments) ==
    [i \in (DOMAIN dict) \cup 1..Len(assignments) |->
        IF i \in 1..Len(assignments) THEN assignments[i] ELSE dict[i]]

store_last_assignments(dict, assignments) == store_enumerated(clear(dict), assignments)

notice_without_fallback(run, formatted, plain) ==
    [run EXCEPT !.notices = 1, !.escaped = ~formatted]

(* the notice of the except Exception clause: formatted, then plain *)
notice_with_fallback(run, formatted, plain) ==
    [run EXCEPT !.notices = IF formatted THEN 1 ELSE 2,
                !.escaped = ~formatted /\ ~plain]

check_assignments_command(user_data, e, net) ==
    LET out == fetch_upcoming_assignments(e)
        run == [NoRun EXCEPT !.handler = "check", !.connect = e.connect,
                             !.prev_size = Cardinality(DOMAIN user_data.last_assignments)]
    IN  IF ~net[1] THEN Handled(user_data, TRUE, run)
        ELSE IF out.raised /\ out.exc = "CanvasException"
        THEN Handled(user_data, ~net[2], [run EXCEPT !.fetch = "raised", !.notices = 1])
        ELSE IF out.raised
        THEN LET r == notice_with_fallback([run EXCEPT !.fetch = "raised"], net[2], net[3])
             IN  Handled(user_data, r.escaped, r)
        ELSE LET stored == [user_data EXCEPT !.last_assignments =
                                store_last_assignments(user_data.last_assignments,
                                                       out.assignments)]
                 sent == [run EXCEPT !.fetch = "returned", !.stored = TRUE, !.list_msgs = 1,
                                     !.outcome = IF net[2] THEN "delivered" ELSE "send_failed"]
             IN  IF net[2] THEN Handled(stored, FALSE, sent)
                 ELSE LET r == notice_with_fallback(sent, net[3], net[4])
                      IN  Handled(stored, r.escaped, r)

(* escape_markdown_v2 on a text given as its characters: the backslashes are
   doubled first, then every reserved character gets a backslash in front *)
Backslash == "\\"
escape_chars ==
    {"_", "*", "[", "]", "(", ")", "~", "backtick", ">", "#", "+", "-", "=", "|", "{", "}", ".", "!"}

RECURSIVE replace_backslashes(_)
replace_backslashes(text) ==
    IF text = <<>> THEN <<>>
    ELSE (IF Head(text) = Backslash THEN <<Backslash, Backslash>> ELSE <<Head(text)>>)
            \o replace_backslashes(Tail(text))

RECURSIVE escape_reserved(_)
escape_reserved(text) ==
    IF text = <<>> THEN <<>>
    ELSE (IF Head(text) \in escape_chars THEN <<Backslash, Head(text)>> ELSE <<Head(text)>>)
            \o escape_reserved(Tail(text))

escape_markdown_v2(text) == escape_reserved(replace_backslashes(text))

(* f"1\\-{len(last_assignments)}": the characters 1, backslash, -, K *)
valid_indices(dict) == <<"1", Backslash, "-", ToString(Cardinality(DOMAIN dict))>>

(* the range as it stands in the text handed to reply_text: valid_indices is
   part of the text passed through escape_markdown_v2 *)
out_of_range_text(dict) == escape_markdown_v2(valid_indices(dict))

(* getattr(assignment, 'id', None) of an assignment without id *)
NoId == 0

(* assignment_summary.get('assignment_id') and assignment_summary.get('course_id') *)
has_ids(assignment_summary) ==
    assignment_summary.assignment_id # NoId /\ assignment_summary.course_id # NoId

(* Canvas lookup of one assignment: every failure is caught and gives None *)
fetch_assignment_details(assignment_summary, canvas) ==
    IF canvas = "ok"
    THEN Some([course_id |-> assignment_summary.course_id,
               assignment_id |-> assignment_summary.assignment_id])
    ELSE None

(* re.match(r'(?:details|info|assignment)\s+(\d+)', text) *)
NoMatch == [match |-> FALSE, index |-> 0]
DetailsText(n) == [match |-> TRUE, index |-> n]

handle_text_message(user_data, text, canvas, net) ==
    LET dict == user_data.last_assignments
        run == [NoRun EXCEPT !.handler = "details", !.index = text.index,
                             !.connect = canvas,
                             !.prev_size = Cardinality(DOMAIN dict)]
    IN  IF ~text.match THEN Handled(user_data, FALSE, [run EXCEPT !.outcome = "ignored"])
        ELSE IF dict = EmptyDict
        THEN Handled(user_data, ~net[1], [run EXCEPT !.outcome = "no_list", !.notices = 1])
        ELSE IF text.index \notin DOMAIN dict
        THEN Handled(user_data, ~net[1],
                     [run EXCEPT !.outcome = "out_of_range", !.notices = 1,
                                 !.range = out_of_range_text(dict)])
        ELSE IF ~net[1]
        \* the except clause names telegram.error.TimedOut, and the name telegram
        \* is not bound in the module: a failed send ends in a NameError
        THEN Handled(user_data, TRUE, [run EXCEPT !.outcome = "fetching_failed"])
        ELSE LET assignment_summary == dict[text.index]
                 fetched_details == IF has_ids(assignment_summary)
                                    THEN fetch_assignment_details(assignment_summary, canvas)
                                    ELSE None
                 r == [run EXCEPT !.outcome = "detail",
                                  !.api_calls = IF has_ids(assignment_summary) THEN 1 ELSE 0,
                                  !.source = IF IsNone(fetched_details) THEN "cached"
                                             ELSE "fetched",
                                  !.detail_msgs = 1]
             IN  IF net[2] THEN Handled(user_data, FALSE, r)
                 ELSE Handled(user_data, ~net[3], [r EXCEPT !.notices = 1])

Questions == {"", "question"}

thinking_unrecorded(history) == history

(* add_message_to_history(context, 'bot', "Thinking...") *)
record_thinking(history) == add_message_to_history(history, "bot", "Thinking...")

whole_history(history) == history

(* message_history[:-2] if len(message_history) >= 2 else [] *)
history_for_prompt(history) ==
    IF Len(history) >= 2 THEN SubSeq(history, 1, Len(history) - 2) ELSE <<>>

ask_command(user_data, question, llm_ok, net) ==
    LET run == [NoRun EXCEPT !.handler = "ask"]
        asked == add_message_to_history(user_data.message_history, "user",
                                        IF question = "" THEN "/ask " ELSE "/ask question")
        With(history) == [user_data EXCEPT !.message_history = history]
    IN  IF question = ""
        THEN IF net[1]
             THEN Handled(With(add_message_to_history(asked, "bot", "Asked user to provide a question")),
                          FALSE, [run EXCEPT !.outcome = "no_question"])
             ELSE Handled(With(asked), TRUE, [run EXCEPT !.outcome = "no_question"])
        ELSE IF ~net[1] THEN Handled(With(asked), TRUE, run)
        ELSE LET thinking == record_thinking(asked)
                 sorry == add_message_to_history(thinking, "bot", "Sorry")
                 \* ollama.chat is called with the history as it stands now
                 called == [run EXCEPT !.at_llm = thinking,
                                       !.prompt = history_for_prompt(thinking)]
             IN  IF llm_ok /\ net[2]
                 THEN Handled(With(add_message_to_history(thinking, "bot", "answer")),
                              FALSE, [called EXCEPT !.outcome = "answered"])
                 ELSE IF (IF llm_ok THEN net[3] ELSE net[2])
                 THEN Handled(With(sorry), FALSE,
                              [called EXCEPT !.outcome = "sorry", !.notices = 1])
                 ELSE Handled(With(thinking), TRUE,
                              [called EXCEPT !.outcome = "sorry", !.notices = 1])

(* a job's result: the messages it sent and, in the older bot, what it stored *)
JobDone(run, bot_data) == [run |-> run, scheduled_assignments |-> bot_data]

(* how a send of the job can fail *)
SendFailures == {"TelegramError", "Exception"}

unguarded_notice(run, delivered) ==
    [run EXCEPT !.notices = 1, !.notice = IF delivered THEN "delivered" ELSE "failed",
                !.escaped = ~delivered]

(* the notice of an except clause of the job, in a try of its own whose
   except Exception only logs *)
guarded_notice(run, delivered) ==
    [run EXCEPT !.notices = 1, !.notice = IF delivered THEN "delivered" ELSE "failed",
                !.escaped = FALSE]

(* AI_BotV2: the daily job.  net[1] is the outcome of the report's send, exc
   the exception a failed send raises, net[2] the outcome of the notice *)
scheduled_assignment_check(bot_data, e, net, exc) ==
    LET out == fetch_upcoming_assignments(e)
        run == [NoRun EXCEPT !.handler = "scheduled", !.user = TELEGRAM_CHAT_ID,
                             !.connect = e.connect]
        sent == [run EXCEPT !.fetch = "returned", !.list_msgs = 1,
                            !.outcome = IF net[1] THEN "delivered" ELSE "send_failed",
                            !.exc = IF net[1] THEN "none" ELSE exc]
    IN  IF out.raised
        \* except (CanvasException, ConnectionError) and except Exception both
        \* send one notice
        THEN JobDone(guarded_notice([run EXCEPT !.fetch = "raised"], net[2]), bot_data)
        ELSE IF net[1] THEN JobDone(sent, bot_data)
        \* except TelegramError: logged only
        ELSE IF exc = "TelegramError" THEN JobDone(sent, bot_data)
        ELSE JobDone(guarded_notice(sent, net[2]), bot_data)

(* agentic_bot_test_manus: the daily job of the older bot *)
manus_scheduled_assignment_check(bot_data, e, net) ==
    LET out == fetch_upcoming_assignments(e)
        run == [NoRun EXCEPT !.handler = "manus_scheduled", !.user = TELEGRAM_CHAT_ID,
                             !.connect = e.connect]
    IN  IF out.raised
        THEN JobDone([run EXCEPT !.fetch = "raised", !.notices = 1], bot_data)
        ELSE IF out.assignments # <<>>
        THEN JobDone([run EXCEPT !.fetch = "returned", !.stored = TRUE, !.list_msgs = 1,
                                 !.outcome = IF net[1] THEN "delivered" ELSE "send_failed"],
                     store_last_assignments(bot_data, out.assignments))
        ELSE JobDone([run EXCEPT !.fetch = "returned", !.outcome = "nothing_sent"], bot_data)

(* what Canvas holds when the bot asks: every failure of the connection and of
   the course enumeration, no course, one course, and two courses whose
   assignments come back in the other order once sorted *)
TwoCourses ==
    <<MkCourse(1, "ok",
        <<MkAssignment(AssignmentId(1, 1), DueAt("Z", Now + 1, 0), NoDescription, NoReply)>>),
      MkCourse(2, "ok",
        <<MkAssignment(AssignmentId(2, 1), DueAt("Z", Now, 0), NoDescription, NoReply)>>)>>

(* a course whose assignment object carries no id *)
CourseWithoutIds ==
    <<MkCourse(1, "ok", <<MkAssignment(NoId, DueAt("Z", Now, 0), NoDescription, NoReply)>>)>>

BotEnvs ==
    {MkEnv(c, "ok", MaxDaysAhead, OneCourse) : c \in Outcomes}
        \cup {MkEnv("ok", g, MaxDaysAhead, OneCourse) : g \in Outcomes}
        \cup {MkEnv("ok", "ok", MaxDaysAhead, cs) : cs \in {<<>>, TwoCourses, CourseWithoutIds}}

Texts == {NoMatch} \cup {DetailsText(n) : n \in 0..MaxIndex}

ListReport(source, assignments) == Some([source |-> source, assignments |-> assignments])

Init ==
    /\ env = NoEnv
    /\ fetched = NotFetched
    /\ adapter = AdapterIdle
    /\ BotIdle

(* one update handled by the Application, error handler included *)
Dispatch(u, r) ==
    /\ updates < MaxUpdates
    /\ updates' = updates + 1
    /\ last_assignments' = [last_assignments EXCEPT ![u] = r.last_assignments]
    /\ message_history' = [message_history EXCEPT ![u] =
          IF r.escaped THEN error_handler(r.message_history) ELSE r.message_history]
    /\ last_run' = [r.run EXCEPT !.user = u]
    /\ UNCHANGED <<env, fetched, adapter, scheduled_assignments, startup, dispatch, sms, view>>

Start ==
    /\ updates < MaxUpdates
    /\ \E u \in Users : \E net \in Deliveries(1) :
        /\ Dispatch(u, start_command(UserData(u), net))
        /\ check_report' = [check_report EXCEPT ![u] = None]
        /\ UNCHANGED last_report

Check ==
    /\ updates < MaxUpdates
    /\ \E u \in Users : \E e \in BotEnvs : \E net \in Deliveries(4) :
        LET r == check_assignments_command(UserData(u), e, net)
            shown == fetch_upcoming_assignments(e).assignments
        IN  /\ Dispatch(u, r)
            /\ check_report' = IF r.run.list_msgs = 1
                               THEN [check_report EXCEPT ![u] = Some(shown)]
                               ELSE check_report
            /\ last_report' = IF r.run.list_msgs = 1
                              THEN [last_report EXCEPT ![u] = ListReport("check", shown)]
                              ELSE last_report

Details ==
    /\ updates < MaxUpdates
    /\ \E u \in Users : \E text \in Texts : \E canvas \in Outcomes : \E net \in Deliveries(3) :
        /\ Dispatch(u, handle_text_message(UserData(u), text, canvas, net))
        /\ UNCHANGED <<check_report, last_report>>

Ask ==
    /\ updates < MaxUpdates
    /\ \E u \in Users : \E question \in Questions : \E llm_ok \in BOOLEAN : \E net \in Deliveries(3) :
        /\ Dispatch(u, ask_command(UserData(u), question, llm_ok, net))
        /\ UNCHANGED <<check_report, last_report>>

JobStoresIndex(j, e, net) ==
    /\ last_run' = j.run
    /\ scheduled_assignments' = j.scheduled_assignments
    /\ last_report' = IF j.run.list_msgs = 1 /\ net[1]
                      THEN [last_report EXCEPT ![TELEGRAM_CHAT_ID] =
                               ListReport("scheduled", fetch_upcoming_assignments(e).assignments)]
                      ELSE last_report
    /\ last_assignments' =
            [last_assignments EXCEPT ![TELEGRAM_CHAT_ID] =
                store_last_assignments(@, fetch_upcoming_assignments(e).assignments)]
    /\ UNCHANGED <<env, fetched, adapter, message_history, check_report,
                   startup, dispatch, sms, view>>

(* a run of the daily job; it has no user context *)
Job(j, e, net) ==
    /\ last_run' = j.run
    /\ scheduled_assignments' = j.scheduled_assignments
    /\ last_report' = IF j.run.list_msgs = 1 /\ net[1]
                      THEN [last_report EXCEPT ![TELEGRAM_CHAT_ID] =
                               ListReport("scheduled", fetch_upcoming_assignments(e).assignments)]
                      ELSE last_report
    /\ UNCHANGED <<env, fetched, adapter, last_assignments, message_history, check_report,
                   startup, dispatch, sms, view>>

Scheduled ==
    /\ updates < MaxUpdates
    /\ \E e \in BotEnvs : \E net \in Deliveries(2) : \E exc \in SendFailures :
        /\ updates' = updates + 1
        /\ Job(scheduled_assignment_check(scheduled_assignments, e, net, exc), e, net)

Next == Start \/ Check \/ Details \/ Ask \/ Scheduled

Spec == Init /\ [][Next]_vars

-----------------------------------------------------------------------------
(* The older bot (agentic_bot_test_manus): /check and its daily job, which
   keeps an index of its own in bot_data; it keeps no message history *)

ManusCheck ==
    \E u \in Users : \E e \in BotEnvs : \E net \in Deliveries(4) :
        LET r == check_assignments_command(UserData(u), e, net)
        IN  /\ last_assignments' = [last_assignments EXCEPT ![u] = r.last_assignments]
            /\ last_run' = [r.run EXCEPT !.user = u]
            /\ check_report' = IF r.run.list_msgs = 1
                               THEN [check_report EXCEPT ![u] =
                                        Some(fetch_upcoming_assignments(e).assignments)]
                               ELSE check_report
            /\ last_report' = IF r.run.list_msgs = 1
                              THEN [last_report EXCEPT ![u] =
                                       ListReport("check", fetch_upcoming_assignments(e).assignments)]
                              ELSE last_report
            /\ UNCHANGED <<env, fetched, adapter, message_history, scheduled_assignments,
                           updates, startup, dispatch, sms, view>>

ManusScheduled ==
    \E e \in BotEnvs : \E net \in Deliveries(1) :
        /\ Job(manus_scheduled_assignment_check(scheduled_assignments, e, net), e, net)
        /\ UNCHANGED updates

NextManus == ManusCheck \/ ManusScheduled

SpecManus == Init /\ [][NextManus]_vars

-----------------------------------------------------------------------------
(* The SMS notifier (canvas_messeger): its scheduled job *)

(* canvas_messeger.fetch_upcoming_assignments: the same connect, enumerate,
   per-course loop and sort *)
sms_fetch_upcoming_assignments(e) == fetch_upcoming_assignments(e)

(* except Exception: logging.exception(...) around the whole job *)
logged(run) == [run EXCEPT !.escaped = FALSE]

(* the job of the SMS notifier: it loads the configuration itself; the text
   it formats never starts with the check mark, so it is always sent *)
check_assignments(settings, e, smtp_ok) ==
    LET loaded == sms_load_configuration(settings)
        out == sms_fetch_upcoming_assignments(e)
        run == [NoRun EXCEPT !.handler = "check_assignments", !.connect = e.connect]
    IN  IF ~loaded.ok THEN logged([run EXCEPT !.outcome = "config_error"])
        ELSE IF out.raised THEN logged([run EXCEPT !.fetch = "raised"])
        ELSE [run EXCEPT !.fetch = "returned", !.list_msgs = 1,
                         !.outcome = IF smtp_ok THEN "delivered" ELSE "send_failed"]

(* the environment at the time of a run: it need not be what main() loaded *)
SmsSettings ==
    {Settings(missing, days, hour, IntText(0), TRUE, TRUE) :
        missing \in BOOLEAN, days \in DaysAheadTexts,
        hour \in {NotInt, IntText(0), IntText(max_hour + 1)}}

CheckAssignments ==
    \E settings \in SmsSettings : \E e \in BotEnvs : \E smtp_ok \in BOOLEAN :
        /\ last_run' = check_assignments(settings, e, smtp_ok)
        /\ UNCHANGED <<env, fetched, adapter, last_assignments, message_history,
                       scheduled_assignments, check_report, last_report, updates, startup,
                       dispatch, sms, view>>

(* the scheduled jobs of the two programs, each fired any number of times *)
NextJobs == Scheduled \/ CheckAssignments

SpecJobs == Init /\ [][NextJobs]_vars

-----------------------------------------------------------------------------
(* Startup: main() of the bot and of the SMS notifier, step by step *)

fall_back(st, resume) == [st EXCEPT !.pc = resume, !.fatal = TRUE]

(* an exception leaves the try block of main(): nothing after the failing
   statement runs, the process ends *)
abort(st, resume) == [st EXCEPT !.pc = "stopped", !.fatal = TRUE]

(* AI_BotV2.main: load_configuration, get_me, ZoneInfo, handlers and
   run_daily, start_polling *)
main(st) ==
    CASE st.pc = "load" ->
            LET loaded == load_configuration(st.settings)
            IN  IF loaded.ok THEN [st EXCEPT !.pc = "get_me", !.config = loaded.config]
                ELSE abort(st, "get_me")
      [] st.pc = "get_me" ->
            IF st.settings.TELEGRAM_BOT_TOKEN THEN [st EXCEPT !.pc = "zone"]
            ELSE abort(st, "zone")
      [] st.pc = "zone" ->
            IF st.settings.APP_TIMEZONE THEN [st EXCEPT !.pc = "schedule"]
            ELSE abort(st, "schedule")
      [] st.pc = "schedule" -> [st EXCEPT !.pc = "start", !.job_scheduled = TRUE]
      [] st.pc = "start" -> [st EXCEPT !.pc = "polling"]
      [] OTHER -> st

(* canvas_messeger.main up to the first run: load_configuration, add_job *)
sms_main(st) ==
    CASE st.pc = "load" ->
            LET loaded == sms_load_configuration(st.settings)
            IN  IF loaded.ok THEN [st EXCEPT !.pc = "add_job", !.config = loaded.config]
                ELSE abort(st, "add_job")
      [] st.pc = "add_job" -> [st EXCEPT !.pc = "first_run", !.job_scheduled = TRUE]
      [] OTHER -> st

InitStartup ==
    /\ env = NoEnv
    /\ fetched = NotFetched
    /\ adapter = AdapterIdle
    /\ last_assignments = [u \in Users |-> EmptyDict]
    /\ message_history = [u \in Users |-> <<>>]
    /\ scheduled_assignments = EmptyDict
    /\ check_report = [u \in Users |-> None]
    /\ last_report = [u \in Users |-> None]
    /\ updates = 0
    /\ last_run = NoRun
    /\ dispatch = NoUpdates
    /\ sms = NoMessage
    /\ view = NoView
    /\ \E program \in {"bot", "sms"} : \E missing, zone, token \in BOOLEAN :
         \E days \in DaysAheadTexts : \E hour \in HourTexts : \E minute \in MinuteTexts :
            startup = Booting(program, Settings(missing, days, hour, minute, zone, token))

StartupUnchanged ==
    UNCHANGED <<env, fetched, adapter, last_assignments, message_history,
                scheduled_assignments, check_report, last_report, updates, last_run,
                dispatch, sms, view>>

BotMain ==
    /\ startup.program = "bot"
    /\ main(startup) # startup
    /\ startup' = main(startup)
    /\ StartupUnchanged

SmsMain ==
    /\ startup.program = "sms"
    /\ sms_main(startup) # startup
    /\ startup' = sms_main(startup)
    /\ StartupUnchanged

(* check_assignments() called by main() itself, before scheduler.start() *)
SmsFirstRun ==
    /\ startup.program = "sms" /\ startup.pc = "first_run"
    /\ startup' = [startup EXCEPT !.pc = "polling"]
    /\ \E e \in BotEnvs : \E smtp_ok \in BOOLEAN :
            last_run' = check_assignments(startup.settings, e, smtp_ok)
    /\ UNCHANGED <<env, fetched, adapter, last_assignments, message_history,
                   scheduled_assignments, check_report, last_report, updates, dispatch, sms, view>>

(* the updater delivers updates and the job queue fires once polling started *)
BotRuns ==
    /\ startup.program = "bot" /\ startup.pc = "polling"
    /\ updates < MaxStartupUpdates
    /\ \/ Start \/ Check \/ Details \/ Ask
       \/ startup.job_scheduled /\ Scheduled

(* the BlockingScheduler fires the job once started *)
SmsRuns ==
    /\ startup.program = "sms" /\ startup.pc = "polling" /\ startup.job_scheduled
    /\ CheckAssignments

NextStartup == BotMain \/ SmsMain \/ SmsFirstRun \/ BotRuns \/ SmsRuns

SpecStartup == InitStartup /\ [][NextStartup]_vars

-----------------------------------------------------------------------------
(* The SMS notifier's plain-text message.  A text is the sequence of its
   segments, each with its length in characters: the header, the blank-line
   separators, one block per assignment, a marker.  Headers and blocks begin
   and end with a visible character. *)

Seg(kind, len, of) == [kind |-> kind, len |-> len, of |-> of]

RECURSIVE TextLen(_)
TextLen(text) == IF text = <<>> THEN 0 ELSE Head(text).len + TextLen(Tail(text))

(* text[:n] *)
RECURSIVE Slice(_, _)
Slice(text, n) ==
    IF text = <<>> \/ n <= 0 THEN <<>>
    ELSE IF Head(text).len <= n THEN <<Head(text)>> \o Slice(Tail(text), n - Head(text).len)
    ELSE <<[Head(text) EXCEPT !.len = n]>>

(* text.rstrip(): the trailing separators, whole or cut, go *)
RECURSIVE sms_rstrip(_)
sms_rstrip(text) ==
    IF text = <<>> THEN <<>>
    ELSE IF text[Len(text)].kind = "break" THEN sms_rstrip(SubSeq(text, 1, Len(text) - 1))
    ELSE text

(* text.rfind("\n\n"): the offset of the last whole separator, -1 without one *)
RECURSIVE rfind_break(_)
rfind_break(text) ==
    IF text = <<>> THEN -1
    ELSE IF text[Len(text)].kind = "break" /\ text[Len(text)].len = 2
    THEN TextLen(SubSeq(text, 1, Len(text) - 1))
    ELSE rfind_break(SubSeq(text, 1, Len(text) - 1))

Digits(n) == IF n < 10 THEN 1 ELSE 2

(* f"{a['assignment_name']}\n{course} - {day_str} @ {time_str}{est_str}" *)
line(a) == a.assignment_name + 1 + a.detail

(* "\n\n".join(message_lines) *)
RECURSIVE join_lines(_, _)
join_lines(assignments, k) ==
    IF k > Len(assignments) THEN <<>>
    ELSE <<Seg("break", 2, 0), Seg("block", line(assignments[k]), k)>>
            \o join_lines(assignments, k + 1)

full_message(assignments, days_ahead) ==
    <<Seg("header", 18 + Digits(days_ahead), 0)>> \o join_lines(assignments, 1)

format_notification_message(assignments, days_ahead) ==
    IF assignments = <<>> THEN <<Seg("none_due", 32 + Digits(days_ahead), 0)>>
    ELSE LET full == full_message(assignments, days_ahead)
             truncated == Slice(full, max_len)
             last_break == rfind_break(sms_rstrip(truncated))
         IN  IF TextLen(full) > max_len
             THEN IF last_break > 0
                  THEN Slice(truncated, last_break) \o <<Seg("more", more_marker_len, 0)>>
                  ELSE truncated \o <<Seg("truncated", truncated_marker_len, 0)>>
             ELSE full

(* the records of a run: the length of the assignment's name and of the
   course, day, time and estimate that follow it *)
SmsAssignment(name, detail) == [assignment_name |-> name, detail |-> detail]

SmsAssignments == {SmsAssignment(name, 30) : name \in {10, 100, 447, 950}}

SmsDaysAhead == {7, 14}

InitSms ==
    /\ env = NoEnv
    /\ fetched = NotFetched
    /\ adapter = AdapterIdle
    /\ last_assignments = [u \in Users |-> EmptyDict]
    /\ message_history = [u \in Users |-> <<>>]
    /\ scheduled_assignments = EmptyDict
    /\ check_report = [u \in Users |-> None]
    /\ last_report = [u \in Users |-> None]
    /\ updates = 0
    /\ last_run = NoRun
    /\ startup = Polling
    /\ dispatch = NoUpdates
    /\ view = NoView
    /\ \E days_ahead \in SmsDaysAhead :
         \E assignments \in SeqsUpTo(SmsAssignments, MaxSmsAssignments) :
            sms = [NoMessage EXCEPT !.days_ahead = days_ahead, !.assignments = assignments]

FormatMessage ==
    /\ ~sms.formatted
    /\ sms' = [sms EXCEPT !.formatted = TRUE,
                          !.message = format_notification_message(sms.assignments,
                                                                  sms.days_ahead)]
    /\ UNCHANGED <<env, fetched, adapter, last_assignments, message_history,
                   scheduled_assignments, check_report, last_report, updates, last_run,
                   startup, dispatch, view>>

NextSms == FormatMessage

SpecSms == InitSms /\ [][NextSms]_vars

-----------------------------------------------------------------------------
(* The SMS notifier's sender.  A message body is a sequence of segments: a
   newline, Seg("nl", 1, 0), or a run of n other characters, Seg("text", n, 0). *)

Newline == Seg("nl", 1, 0)
Run(n) == Seg("text", n, 0)
BlankLine == <<Newline, Newline>>

(* message_body.split("\n\n"): left to right, the separators do not overlap *)
RECURSIVE split_blank(_, _)
split_blank(text, piece) ==
    IF text = <<>> THEN <<piece>>
    ELSE IF Len(text) >= 2 /\ SubSeq(text, 1, 2) = BlankLine
    THEN <<piece>> \o split_blank(SubSeq(text, 3, Len(text)), <<>>)
    ELSE split_blank(Tail(text), Append(piece, Head(text)))

(* "\n\n".join(current_chunk) *)
RECURSIVE blank_join(_)
blank_join(pieces) ==
    IF pieces = <<>> THEN <<>>
    ELSE IF Len(pieces) = 1 THEN pieces[1]
    ELSE pieces[1] \o BlankLine \o blank_join(Tail(pieces))

flush_dropped(chunks, current_chunk) == chunks

(* if current_chunk: chunks.append("\n\n".join(current_chunk)) *)
flush(chunks, current_chunk) ==
    IF current_chunk # <<>> THEN Append(chunks, blank_join(current_chunk)) ELSE chunks

(* for assignment in assignment_chunks: ... and the last chunk after the loop *)
RECURSIVE group_blocks(_, _, _, _, _)
group_blocks(assignment_chunks, k, chunks, current_chunk, current_length) ==
    IF k > Len(assignment_chunks) THEN flush(chunks, current_chunk)
    ELSE LET assignment == assignment_chunks[k]
             assignment_len == TextLen(assignment) + 2
         IN  IF current_length + assignment_len > sms_limit
             THEN group_blocks(assignment_chunks, k + 1, flush(chunks, current_chunk),
                               <<assignment>>, TextLen(assignment))
             ELSE group_blocks(assignment_chunks, k + 1, chunks,
                               Append(current_chunk, assignment),
                               current_length + assignment_len)

(* the chunks of a non-empty body: the first one starts with the header *)
make_chunks(message_body) ==
    LET assignments == split_blank(message_body, <<>>)
        header == assignments[1]
        assignment_chunks == Tail(assignments)
    IN  group_blocks(assignment_chunks, 1, <<>>, <<header>>, TextLen(header))

(* f"({i}/{total_chunks})\n{chunk}" if there are several chunks *)
PartPrefix(i, total_chunks) ==
    <<Seg("part", 3 + Digits(i) + Digits(total_chunks), i), Newline>>

numbered(chunk, i, total_chunks) ==
    IF total_chunks > 1 THEN PartPrefix(i, total_chunks) \o chunk ELSE chunk

(* what the SMTP server does: whether connecting, STARTTLS and login succeed,
   which sendmail call raises (0: none), whether leaving the with block raises *)
Smtp(login, fail_at, quit) == [login |-> login, fail_at |-> fail_at, quit |-> quit]

Mail(text, part, delivered) == [text |-> text, part |-> part, delivered |-> delivered]

SendResult(chunks, connected, mails, returned) ==
    [chunks |-> chunks, connected |-> connected, mails |-> mails, returned |-> returned]

RECURSIVE send_parts(_, _, _, _)

skip_failed_part(chunks, i, smtp, mails) == send_parts(chunks, i + 1, smtp, mails)

(* an exception of sendmail leaves the loop and the with block *)
propagate(chunks, i, smtp, mails) == [mails |-> mails, raised |-> TRUE]

(* for i, chunk in enumerate(chunks, 1): ... server.sendmail(...) *)
send_parts(chunks, i, smtp, mails) ==
    IF i > Len(chunks) THEN [mails |-> mails, raised |-> ~smtp.quit]
    ELSE LET text == numbered(chunks[i], i, Len(chunks))
         IN  IF smtp.fail_at = i
             THEN propagate(chunks, i, smtp, Append(mails, Mail(text, i, FALSE)))
             ELSE send_parts(chunks, i + 1, smtp, Append(mails, Mail(text, i, TRUE)))

send_sms_via_email(message_body, smtp) ==
    IF message_body = <<>> THEN SendResult(<<>>, FALSE, <<>>, FALSE)
    ELSE LET chunks == make_chunks(message_body)
             sent == send_parts(chunks, 1, smtp, <<>>)
         IN  IF ~smtp.login THEN SendResult(chunks, FALSE, <<>>, FALSE)
             ELSE SendResult(chunks, TRUE, sent.mails, ~sent.raised)

(* message bodies: up to MaxBlocks + 1 pieces joined by blank lines.  The
   pieces are a header, two-line blocks around the limit, and pieces that
   are empty or begin or end with a newline. *)
Pieces ==
    {<<Run(19)>>, <<Run(10), Newline, Run(30)>>, <<Run(98), Newline, Run(30)>>,
     <<Run(99), Newline, Run(30)>>, <<>>, <<Newline, Run(10)>>, <<Run(10), Newline>>}

InitChunks ==
    /\ env = NoEnv
    /\ fetched = NotFetched
    /\ adapter = AdapterIdle
    /\ last_assignments = [u \in Users |-> EmptyDict]
    /\ message_history = [u \in Users |-> <<>>]
    /\ scheduled_assignments = EmptyDict
    /\ check_report = [u \in Users |-> None]
    /\ last_report = [u \in Users |-> None]
    /\ updates = 0
    /\ last_run = NoRun
    /\ startup = Polling
    /\ dispatch = NoUpdates
    /\ view = NoView
    /\ \E pieces \in SeqsUpTo(Pieces, MaxBlocks + 1) :
            sms = [NoMessage EXCEPT !.formatted = TRUE, !.message = blank_join(pieces)]

SendSms ==
    /\ sms.sent = None
    /\ \E login \in BOOLEAN, quit \in BOOLEAN, fail_at \in 0 .. MaxBlocks + 1 :
            sms' = [sms EXCEPT !.sent = Some(send_sms_via_email(sms.message,
                                                Smtp(login, fail_at, quit)))]
    /\ UNCHANGED <<env, fetched, adapter, last_assignments, message_history,
                   scheduled_assignments, check_report, last_report, updates, last_run,
                   startup, dispatch, view>>

NextChunks == SendSms

SpecChunks == InitChunks /\ [][NextChunks]_vars

-----------------------------------------------------------------------------
(* The list view (format_assignment_message): the free-form fields of one
   record, as character sequences *)

(* text.split(sep): left to right, the separators do not overlap *)
RECURSIVE split(_, _, _)
split(text, sep, piece) ==
    IF text = <<>> THEN <<piece>>
    ELSE IF Len(text) >= Len(sep) /\ SubSeq(text, 1, Len(sep)) = sep
    THEN <<piece>> \o split(SubSeq(text, Len(sep) + 1, Len(text)), sep, <<>>)
    ELSE split(Tail(text), sep, Append(piece, Head(text)))

(* text[:n] *)
Take(text, n) == SubSeq(text, 1, IF Len(text) < n THEN Len(text) ELSE n)

(* ' \\\\\\- ': a space, three backslashes, a hyphen, a space *)
course_delimiter == <<" ", Backslash, Backslash, Backslash, "-", " ">>

(* canvas_telegram_bot: ' \\- ', a space, one backslash, a hyphen, a space *)
tg_course_delimiter == <<" ", Backslash, "-", " ">>

(* course_parts[-1][:25] if len(course_parts) > 1 else course_name_full[:25] *)
shorten(course_name_full, delimiter) ==
    LET course_parts == split(course_name_full, delimiter, <<>>)
    IN  IF Len(course_parts) > 1
        THEN Take(course_parts[Len(course_parts)], course_short_len)
        ELSE Take(course_name_full, course_short_len)

course_short(course_name) == shorten(escape_markdown_v2(course_name), course_delimiter)

tg_course_short(course_name) == shorten(escape_markdown_v2(course_name), tg_course_delimiter)

(* the two lines of a record that carry free-form text:
   f"*{index_str}* ... *{assignment_name}*\n" and f"   ... Course: _{course_short}_\n" *)
format_assignment_message(a) ==
    [assignment_name |-> escape_markdown_v2(a.assignment_name),
     course_short |-> course_short(a.course_name),
     title_line |-> <<"*">> \o escape_markdown_v2(a.assignment_name) \o <<"*">>,
     course_line |-> <<"_">> \o course_short(a.course_name) \o <<"_">>,
     tg_course_short |-> tg_course_short(a.course_name)]

Fill(n) == [i \in 1 .. n |-> "a"]

(* segments of a course name: up to 26 characters, the last ones reserved *)
Segments ==
    {Fill(n) \o t : n \in {0, course_short_len - 1},
                    t \in {<<>>, <<"a">>, <<".">>, <<Backslash>>, <<"a", ".">>}}

Delimiters == {<<" ", "-", " ">>, <<" ", Backslash, "-", " ">>}

RECURSIVE CourseNames(_)
CourseNames(n) ==
    IF n = 1 THEN Segments
    ELSE CourseNames(n - 1)
            \cup {name \o d \o seg : name \in CourseNames(n - 1), d \in Delimiters,
                                     seg \in Segments}

Titles == SeqsUpTo({"a", "_", Backslash}, MaxTitleLen)

InitView ==
    /\ env = NoEnv
    /\ fetched = NotFetched
    /\ adapter = AdapterIdle
    /\ last_assignments = [u \in Users |-> EmptyDict]
    /\ message_history = [u \in Users |-> <<>>]
    /\ scheduled_assignments = EmptyDict
    /\ check_report = [u \in Users |-> None]
    /\ last_report = [u \in Users |-> None]
    /\ updates = 0
    /\ last_run = NoRun
    /\ startup = Polling
    /\ dispatch = NoUpdates
    /\ sms = NoMessage
    /\ \E title \in Titles : \E name \in CourseNames(MaxSegments) :
            view = [NoView EXCEPT !.assignment_name = title, !.course_name = name]

FormatList ==
    /\ view.rendered = None
    /\ view' = [view EXCEPT !.rendered = Some(format_assignment_message(view))]
    /\ UNCHANGED <<env, fetched, adapter, last_assignments, message_history,
                   scheduled_assignments, check_report, last_report, updates, last_run,
                   startup, dispatch, sms>>

NextView == FormatList

SpecView == InitView /\ [][NextView]_vars

-----------------------------------------------------------------------------
(* The Application's dispatcher: updates of one chat wait in the update queue;
   a handler runs from await to await *)

(* an update: the command and, for /check, what Canvas holds when it is asked *)
Update(cmd, e) == [cmd |-> cmd, e |-> e]

Updates ==
    {Update("start", NoEnv), Update("ask", NoEnv)}
        \cup {Update("check", MkEnv("ok", "ok", MaxDaysAhead, cs)) : cs \in {OneCourse, TwoCourses}}

(* the statement a handler returns from, counted in awaits *)
LastPc(cmd) == CASE cmd = "start" -> 1 [] cmd = "check" -> 3 [] OTHER -> 3

(* the code of a handler from one await to the next, every send delivered:
   /start pops the context, awaits the welcome, appends its turn;
   /check awaits its progress reply, awaits the fetch, stores the index and
   awaits the list's send, returns;
   /ask appends the question and awaits the progress reply, appends
   "Thinking..." and awaits the LLM, awaits the answer's send, appends the
   answer *)
handler_step(update, pc, user_data) ==
    CASE update.cmd = "start" /\ pc = 0 ->
            [last_assignments |-> pop_last_assignments(user_data.last_assignments),
             message_history |-> <<>>]
      [] update.cmd = "start" /\ pc = 1 ->
            [user_data EXCEPT !.message_history =
                add_message_to_history(@, "bot", "Sent welcome message")]
      [] update.cmd = "check" /\ pc = 2 ->
            [user_data EXCEPT !.last_assignments =
                store_last_assignments(@, fetch_upcoming_assignments(update.e).assignments)]
      [] update.cmd = "ask" /\ pc = 0 ->
            [user_data EXCEPT !.message_history =
                add_message_to_history(@, "user", "/ask question")]
      [] update.cmd = "ask" /\ pc = 1 ->
            [user_data EXCEPT !.message_history = record_thinking(@)]
      [] update.cmd = "ask" /\ pc = 3 ->
            [user_data EXCEPT !.message_history = add_message_to_history(@, "bot", "answer")]
      [] OTHER -> user_data

concurrent_updates(running) == TRUE

(* Application.builder()...build() without concurrent_updates, handlers added
   blocking: the Application awaits the handler of one update before it takes
   the next update from the queue *)
sequential_updates(running) == running = <<>>

(* a handler in flight: the user_data it found and the user_data as its own
   last step left it *)
InFlight(id, update, user_data) ==
    [id |-> id, update |-> update, pc |-> 0, found |-> user_data, mine |-> user_data]

InitDispatch ==
    /\ env = NoEnv
    /\ fetched = NotFetched
    /\ adapter = AdapterIdle
    /\ last_assignments = [u \in Users |-> EmptyDict]
    /\ message_history = [u \in Users |-> <<>>]
    /\ scheduled_assignments = EmptyDict
    /\ check_report = [u \in Users |-> None]
    /\ last_report = [u \in Users |-> None]
    /\ updates = 0
    /\ last_run = NoRun
    /\ startup = Polling
    /\ \E queue \in SeqsUpTo(Updates, MaxQueue) :
            dispatch = [NoUpdates EXCEPT !.queue = queue]
    /\ sms = NoMessage
    /\ view = NoView

DispatchUnchanged ==
    UNCHANGED <<env, fetched, adapter, scheduled_assignments, check_report, last_report,
                updates, last_run, startup, sms, view>>

TakeUpdate ==
    /\ dispatch.queue # <<>>
    /\ sequential_updates(dispatch.running)
    /\ dispatch' = [queue |-> Tail(dispatch.queue),
                    running |-> Append(dispatch.running,
                                       InFlight(dispatch.dispatched + 1, Head(dispatch.queue),
                                                UserData(TELEGRAM_CHAT_ID))),
                    dispatched |-> dispatch.dispatched + 1]
    /\ UNCHANGED <<last_assignments, message_history>>
    /\ DispatchUnchanged

(* the event loop resumes one of the handlers in flight *)
Resume ==
    \E i \in 1..Len(dispatch.running) :
        LET h == dispatch.running[i]
            user_data == handler_step(h.update, h.pc, UserData(TELEGRAM_CHAT_ID))
        IN  /\ last_assignments' =
                    [last_assignments EXCEPT ![TELEGRAM_CHAT_ID] = user_data.last_assignments]
            /\ message_history' =
                    [message_history EXCEPT ![TELEGRAM_CHAT_ID] = user_data.message_history]
            /\ dispatch' = [dispatch EXCEPT !.running =
                    IF h.pc = LastPc(h.update.cmd)
                    THEN SelectSeq(@, LAMBDA other : other.id # h.id)
                    ELSE [@ EXCEPT ![i] = [h EXCEPT !.pc = h.pc + 1, !.mine = user_data]]]
            /\ DispatchUnchanged

NextDispatch == TakeUpdate \/ Resume

SpecDispatch == InitDispatch /\ [][NextDispatch]_vars

-----------------------------------------------------------------------------
(* Properties of an aggregation run, read off its inputs and its outcome *)

Positions(e) ==
    UNION {{<<c, k>> : k \in 1..Len(e.courses[c].assignments)} : c \in 1..Len(e.courses)}

Src(e, p) == e.courses[p[1]].assignments[p[2]]

DueInstant(a) == parse_iso_datetime(a.due_at)

DueInsideWindow(e, a) ==
    /\ DueInstant(a) # None
    /\ e.now <= DueInstant(a)[1]
    /\ DueInstant(a)[1] <= e.now + e.days_ahead * TicksPerDay

Malformed(a) == a.description.kind = "other"

CourseFails(e, c) ==
    \/ e.courses[c].get_assignments # "ok"
    \/ \E k \in 1..Len(e.courses[c].assignments) :
          Malformed(e.courses[c].assignments[k]) /\ DueInsideWindow(e, e.courses[c].assignments[k])

Listed(out, p) ==
    \E i \in 1..Len(out.assignments) :
        /\ out.assignments[i].course_id = p[1]
        /\ out.assignments[i].assignment_id = AssignmentId(p[1], p[2])

RecordOf(out, p) ==
    out.assignments[CHOOSE i \in 1..Len(out.assignments) :
        /\ out.assignments[i].course_id = p[1]
        /\ out.assignments[i].assignment_id = AssignmentId(p[1], p[2])]

Enumerated(e) == e.connect = "ok" /\ e.get_courses = "ok"

\* C3: an assignment of a course that is processed without error is kept if and
\* only if its normalized due instant d satisfies now <= d <= now + days_ahead
\* (both ends included); one with no parsable due date is never kept.
C3_WindowInclusive ==
    (fetched.done /\ Enumerated(env)) =>
        /\ ~fetched.out.raised
        /\ \A p \in Positions(env) :
              ~CourseFails(env, p[1]) =>
                  (Listed(fetched.out, p) <=> DueInsideWindow(env, Src(env, p)))

\* C3 witness: a run with days_ahead >= 1 that kept an assignment due exactly at
\* now + days_ahead and left out one due one tick later.
C3_Witness ==
    /\ fetched.done /\ Enumerated(env) /\ env.days_ahead >= 1
    /\ \E p \in Positions(env) : \E q \in Positions(env) :
          /\ DueInstant(Src(env, p)) = Some(env.now + env.days_ahead * TicksPerDay)
          /\ Listed(fetched.out, p)
          /\ DueInstant(Src(env, q)) = Some(env.now + env.days_ahead * TicksPerDay + 1)
          /\ ~Listed(fetched.out, q)

\* C4: the returned list is ordered by non-decreasing due instant, and records
\* with equal due instants keep their source order (course order, then
\* assignment order within the course).
C4_SortedStable ==
    fetched.done =>
        \A i \in 1..Len(fetched.out.assignments) : \A j \in 1..Len(fetched.out.assignments) :
            i < j =>
                LET a == fetched.out.assignments[i]
                    b == fetched.out.assignments[j]
                IN  /\ a.due_date_local <= b.due_date_local
                    /\ a.due_date_local = b.due_date_local =>
                          \/ a.course_id < b.course_id
                          \/ a.course_id = b.course_id /\ a.assignment_id < b.assignment_id

\* C4 witness: a returned list of three records in which two records of
\* different courses share a due instant and a record of the first course,
\* fetched first, comes last.
C4_Witness ==
    /\ fetched.done /\ Len(fetched.out.assignments) = 3
    /\ fetched.out.assignments[1].due_date_local = fetched.out.assignments[2].due_date_local
    /\ fetched.out.assignments[1].course_id < fetched.out.assignments[2].course_id
    /\ fetched.out.assignments[3].course_id = 1
    /\ fetched.out.assignments[3].assignment_id = AssignmentId(1, 1)

\* C5: when course enumeration succeeds, the failure of one course never aborts
\* the run: it returns, and every in-window assignment of every course that did
\* not fail is in the result.
C5_CourseFailureIsolated ==
    (fetched.done /\ Enumerated(env)) =>
        /\ ~fetched.out.raised
        /\ \A p \in Positions(env) :
              (~CourseFails(env, p[1]) /\ DueInsideWindow(env, Src(env, p))) =>
                  Listed(fetched.out, p)

\* C5 witness: a run in which the first course failed and an in-window
\* assignment of the second course was returned.
C5_Witness ==
    /\ fetched.done /\ Enumerated(env) /\ Len(env.courses) = 2
    /\ CourseFails(env, 1) /\ ~CourseFails(env, 2)
    /\ \E p \in Positions(env) :
          p[1] = 2 /\ DueInsideWindow(env, Src(env, p)) /\ Listed(fetched.out, p)

(* the course's loop reaches position p: the course's assignments were
   listed and no assignment before p raised *)
Reaches(e, p) ==
    /\ e.courses[p[1]].get_assignments = "ok"
    /\ \A j \in 1 .. p[2] - 1 :
            ~(Malformed(Src(e, <<p[1], j>>)) /\ DueInsideWindow(e, Src(e, <<p[1], j>>)))

(* processing the assignment at p raises *)
FailsAt(e, p) == Reaches(e, p) /\ Malformed(Src(e, p)) /\ DueInsideWindow(e, Src(e, p))

\* C30: when a course fails part-way through its assignments, the records
\* appended for its earlier in-window assignments stay in the result, sorted
\* with the rest; only the assignment that failed and those after it are
\* missing: an assignment is in the result if and only if it is in the window
\* and the loop of its course got past it.
C30_PartialCourseKept ==
    (fetched.done /\ Enumerated(env)) =>
        /\ ~fetched.out.raised
        /\ \A p \in Positions(env) :
              Listed(fetched.out, p) <=>
                  (DueInsideWindow(env, Src(env, p)) /\ Reaches(env, p) /\ ~FailsAt(env, p))
        /\ \A i \in 1 .. Len(fetched.out.assignments) - 1 :
              fetched.out.assignments[i].due_date_local
                  <= fetched.out.assignments[i + 1].due_date_local

\* C30 witness: a course whose first assignment was recorded, whose second
\* raised, and whose third, in the window too, is missing.
C30_Witness ==
    /\ fetched.done /\ Enumerated(env)
    /\ \E c \in 1 .. Len(env.courses) :
          /\ Len(env.courses[c].assignments) >= 3
          /\ Listed(fetched.out, <<c, 1>>)
          /\ FailsAt(env, <<c, 2>>)
          /\ DueInsideWindow(env, Src(env, <<c, 3>>))
          /\ ~Malformed(Src(env, <<c, 3>>))
          /\ ~Listed(fetched.out, <<c, 3>>)

\* C7: if the call that enumerates the courses fails, with any kind of failure,
\* fetch_upcoming_assignments returns an empty list and propagates nothing.
C7_EnumerationFailureReturnsEmpty ==
    (fetched.done /\ env.connect = "ok" /\ env.get_courses # "ok") =>
        (~fetched.out.raised /\ fetched.out.assignments = <<>>)

HasNumber(text) == \E i \in 1..Len(text) : text[i].num

\* C9: whatever the LLM does (transport failure, reply without a number, valid
\* number), every in-window assignment of a course that is otherwise processed
\* without error is in the result; a failed or unparsable enrichment gives a
\* record with no estimate, a number gives one with an estimate, and the run
\* never raises.
C9_EnrichmentNeverBlocks ==
    (fetched.done /\ Enumerated(env)) =>
        /\ ~fetched.out.raised
        /\ \A p \in Positions(env) :
              (~CourseFails(env, p[1]) /\ DueInsideWindow(env, Src(env, p))) =>
                  /\ Listed(fetched.out, p)
                  /\ (~Src(env, p).llm.ok \/ ~HasNumber(Src(env, p).llm.text)) =>
                        RecordOf(fetched.out, p).estimated_hours = None
                  /\ (Src(env, p).llm.ok /\ HasNumber(Src(env, p).llm.text)
                        /\ clean_html(Src(env, p).description.toks) # <<>>) =>
                        RecordOf(fetched.out, p).estimated_hours # None

\* C9 witness: the LLM was called for an assignment and failed; the assignment
\* is returned without an estimate, and so is the next assignment of its course.
C9_Witness ==
    /\ fetched.done /\ Enumerated(env) /\ Len(fetched.out.calls) = 2
    /\ <<1, 2>> \in Positions(env)
    /\ ~Src(env, <<1, 1>>).llm.ok
    /\ Listed(fetched.out, <<1, 1>>)
    /\ RecordOf(fetched.out, <<1, 1>>).estimated_hours = None
    /\ Listed(fetched.out, <<1, 2>>)
    /\ RecordOf(fetched.out, <<1, 2>>).estimated_hours = Some(30)

EmptyContent(description) ==
    Falsy(description) \/ (description.kind = "str" /\ clean_html(description.toks) = <<>>)

\* C8: the estimate or summary operation never invokes the LLM for a description
\* that is absent, empty, or empty after sanitization; it returns nothing.
C8_NoCallOnEmptyContent ==
    (adapter.op # "idle" /\ EmptyContent(adapter.description)) =>
        (adapter.out.calls = <<>> /\ adapter.out.value = None)


-----------------------------------------------------------------------------
(* Properties of the bot handlers and of the daily job *)

IndexMatches(dict, assignments) ==
    /\ DOMAIN dict = 1..Len(assignments)
    /\ \A i \in 1..Len(assignments) : dict[i] = assignments[i]

\* C1 (as the code has it): whenever a /check has stored its list and sent its
\* report to a session, and no /start of that session has followed, the
\* session's index maps each i to exactly the i-th assignment of the most recent
\* such /check report, whether or not the report was delivered; a scheduled
\* report sent to the same chat leaves the index as it was, and /start removes
\* the index.
C1_IndexMatchesLastCheckReport ==
    \A u \in Users :
        IF check_report[u] = None
        THEN last_assignments[u] = EmptyDict
        ELSE IndexMatches(last_assignments[u], Get(check_report[u]))

\* C1 witness: after a /check that listed two assignments, the daily job
\* delivered a different list to the same chat, and the index is still the one
\* of the /check.
C1_Witness ==
    /\ last_run.handler = "scheduled" /\ last_run.outcome = "delivered"
    /\ check_report[TELEGRAM_CHAT_ID] # None
    /\ Len(Get(check_report[TELEGRAM_CHAT_ID])) = 2
    /\ last_report[TELEGRAM_CHAT_ID] # None
    /\ Get(last_report[TELEGRAM_CHAT_ID]).source = "scheduled"
    /\ Len(Get(last_report[TELEGRAM_CHAT_ID]).assignments) = 1
    /\ IndexMatches(last_assignments[TELEGRAM_CHAT_ID], Get(check_report[TELEGRAM_CHAT_ID]))

\* C1 (as stated): whenever a list report has been sent to a chat session, by
\* /check or by the daily job, the session's index maps each i to exactly the
\* i-th assignment of the most recent list report sent to that session.
C1_IndexMatchesLastReport ==
    \A u \in Users :
        last_report[u] # None =>
            IndexMatches(last_assignments[u], Get(last_report[u]).assignments)

\* C2: after every /check that stores a list of N records, the session's index
\* has exactly the keys 1..N, key i holds the i-th record of that list, the
\* records are in ascending due-date order, and nothing of an earlier /check is
\* left over.
C2_CheckReplacesIndex ==
    (last_run.handler = "check" /\ last_run.stored) =>
        LET dict == last_assignments[last_run.user]
            shown == Get(check_report[last_run.user])
        IN  /\ DOMAIN dict = 1..Len(shown)
            /\ \A i \in DOMAIN dict :
                  /\ i \in 1..Len(shown)
                  /\ dict[i] = shown[i]
                  /\ \A j \in DOMAIN dict :
                        i < j => dict[i].due_date_local <= dict[j].due_date_local

\* C2 witness: a /check that stored one record over an index of two.
C2_Witness ==
    /\ last_run.handler = "check" /\ last_run.stored
    /\ last_run.prev_size = 2
    /\ DOMAIN last_assignments[last_run.user] = {1}

C10_OneListMessagePerRun ==
    (/\ last_run.handler \in {"check", "scheduled", "manus_scheduled"}
     /\ last_run.fetch = "returned") =>
        last_run.list_msgs = 1


\* C11: the scheduled job never lets an error escape: whatever the aggregation
\* did (connection failure, enumeration failure, any exception) and whatever
\* the sends did, the failed error notice included, scheduled_assignment_check
\* and check_assignments return normally.
C11_ScheduledNeverEscapes ==
    last_run.handler \in {"scheduled", "check_assignments"} => ~last_run.escaped

C11_Witness ==
    /\ last_run.handler = "scheduled"
    /\ last_run.fetch = "raised"
    /\ last_run.notice = "failed"
    /\ ~last_run.escaped


(* a condition main() treats as fatal: a required setting is missing, a numeric
   setting is not an integer or the time of day is out of range, and for the
   bot a rejected token or an unknown zone *)
FatalSettings(program, settings) ==
    \/ settings.missing
    \/ ~settings.DAYS_AHEAD.int \/ ~settings.CHECK_HOUR.int \/ ~settings.CHECK_MINUTE.int
    \/ ~valid_time(settings.CHECK_HOUR.value, settings.CHECK_MINUTE.value)
    \/ program = "bot" /\ (~settings.TELEGRAM_BOT_TOKEN \/ ~settings.APP_TIMEZONE)

NothingRan == last_run = NoRun /\ updates = 0

\* C12: when startup hits a fatal error (a required setting missing, a numeric
\* setting invalid, the bot token rejected, the zone unknown) the process stops
\* before the daily job is registered and before polling starts: no scheduled
\* run and no handler ever executes.
C12_FatalStartupStopsBeforeScheduling ==
    /\ startup.fatal =>
            startup.pc = "stopped" /\ ~startup.job_scheduled /\ NothingRan
    /\ FatalSettings(startup.program, startup.settings) =>
            startup.pc # "polling" /\ ~startup.job_scheduled /\ NothingRan

C12_Witness ==
    /\ startup.fatal
    /\ startup.program = "bot"
    /\ ~startup.settings.APP_TIMEZONE
    /\ startup.config # NoConfig


(* the three numeric settings are integers inside their ranges *)
NumericInRange(settings) ==
    /\ settings.DAYS_AHEAD.int /\ settings.DAYS_AHEAD.value >= 0
    /\ settings.CHECK_HOUR.int /\ settings.CHECK_HOUR.value \in 0..max_hour
    /\ settings.CHECK_MINUTE.int /\ settings.CHECK_MINUTE.value \in 0..max_minute

\* C13: load_configuration fails fatally whenever a numeric setting is out of
\* range (DAYS_AHEAD not an integer >= 0, CHECK_HOUR outside 0..23,
\* CHECK_MINUTE outside 0..59) and returns a configuration only when all three
\* are in range.
C13_LoadRejectsOutOfRange ==
    startup.pc \notin {"load", "stopped"} => NumericInRange(startup.settings)


(* a details request that matched the pattern, against an index of K >= 1 entries *)
DetailsRequest == last_run.handler = "details" /\ last_run.outcome # "ignored"

\* C14: with an index of K >= 1 entries, a request 'details N' with N outside
\* 1..K (N = 0 included) makes exactly one out-of-range reply that names the
\* valid range "1-K", sends no detail view and makes no call to the source API.
C14_OutOfRangeReply ==
    (/\ DetailsRequest
     /\ last_run.prev_size >= 1
     /\ last_run.index \notin 1..last_run.prev_size) =>
        /\ last_run.outcome = "out_of_range"
        /\ last_run.notices = 1
        /\ last_run.detail_msgs = 0
        /\ last_run.api_calls = 0
        /\ last_run.range = escape_markdown_v2(<<"1", "-", ToString(last_run.prev_size)>>)


(* the record a valid details request resolved *)
Requested == last_assignments[last_run.user][last_run.index]

\* C15: for a valid index N the detail view is built from the re-fetched record
\* when the cached record has both ids and the fetch succeeds, from the cached
\* record when the ids are missing or the fetch fails in any way, and in every
\* case exactly one detail message is sent.
C15_OneDetailMessage ==
    (DetailsRequest /\ last_run.index \in 1..last_run.prev_size) =>
        /\ last_run.detail_msgs = 1
        /\ last_run.source = IF has_ids(Requested) /\ last_run.connect = "ok"
                              THEN "fetched" ELSE "cached"


IsSuffix(a, b) == Len(a) <= Len(b) /\ a = SubSeq(b, Len(b) - Len(a) + 1, Len(b))

(* the number of turns a run appends, the error handler's turn included: /ask
   its question, "Thinking..." once a question was given and the first reply
   went out, and one reply or error turn; /start and any other run that ended
   in the error handler one turn *)
Appended(run) ==
    IF run.handler = "ask"
    THEN (IF run.outcome \in {"answered", "sorry"} THEN 3 ELSE 2)
    ELSE IF run.handler = "start" \/ run.escaped THEN 1
    ELSE 0

Min(a, b) == IF a <= b THEN a ELSE b

(* the new history is the old one (nothing after /start) followed by the turns
   the run appended, cut from the front down to the bound *)
HistoryStep(u) ==
    LET old == IF last_run'.handler = "start" THEN <<>> ELSE message_history[u]
        new == message_history'[u]
        k == Appended(last_run')
        kept == SubSeq(new, 1, Len(new) - k)
    IN  /\ Len(new) = Min(MAX_HISTORY_MESSAGES, Len(old) + k)
        /\ IsSuffix(kept, old)

\* C16: after any sequence of /start, /ask (with or without question) and
\* error-handler notifications the history holds at most MAX_HISTORY_MESSAGES
\* turns, and they are the most recently appended turns in the order they were
\* appended: the oldest turns are the ones evicted.
C16_HistoryBounded ==
    /\ [](\A u \in Users : Len(message_history[u]) <= MAX_HISTORY_MESSAGES)
    /\ [][\A u \in Users : HistoryStep(u)]_vars

C16_Witness ==
    /\ Len(message_history[1]) = MAX_HISTORY_MESSAGES
    /\ message_history[1][1].content = "answer"
    /\ last_run.outcome = "no_question"


LastN(seq, n) == IF Len(seq) > n THEN SubSeq(seq, Len(seq) - n + 1, Len(seq)) ELSE seq

Grown(history, turns) == LastN(history \o turns, MAX_HISTORY_MESSAGES)

QuestionTurn == Turn("user", "/ask question")
ThinkingTurn == Turn("bot", "Thinking...")
AnswerTurn == Turn("bot", "answer")

(* an /ask with a question whose answer the LLM gave and the bot sent *)
Answered(run) == run.handler = "ask" /\ run.outcome = "answered"

StartTurns ==
    {<<Turn("bot", "Sent welcome message")>>, <<Turn("bot", "Error processing update")>>}

\* C18: after /start the session's index is empty, so that a 'details N' that
\* follows reports that no list is available, and the history holds no turn
\* recorded before the /start.
C18_StartClearsSession ==
    /\ [](last_run.handler = "start" =>
              /\ last_assignments[last_run.user] = EmptyDict
              /\ message_history[last_run.user] \in StartTurns)
    /\ [][(last_run.handler = "start" /\ DetailsRequest') =>
              last_run'.outcome = "no_list" /\ last_run'.detail_msgs = 0]_vars

C18_Witness ==
    /\ last_run.handler = "start"
    /\ last_run.prev_size >= 1
    /\ last_run.prev_turns >= 2
    /\ last_assignments[1] = EmptyDict


AllDelivered(n) == [k \in 1..n |-> TRUE]

(* what the handler of an update does to the user_data it found when nothing
   else runs in between *)
Alone(h) ==
    LET done == CASE h.update.cmd = "start" -> start_command(h.found, AllDelivered(1))
                  [] h.update.cmd = "check" ->
                        check_assignments_command(h.found, h.update.e, AllDelivered(4))
                  [] OTHER -> ask_command(h.found, "question", TRUE, AllDelivered(3))
    IN  [last_assignments |-> done.last_assignments, message_history |-> done.message_history]

Returns(h) ==
    /\ h.pc = LastPc(h.update.cmd)
    /\ \A k \in 1..Len(dispatch'.running) : dispatch'.running[k].id # h.id

\* C19: for one chat at most one command pipeline is in flight at a time: no
\* two handlers of the session interleave their reads and writes of the index
\* and the history although handlers suspend at awaited network calls; what a
\* handler in flight finds is what its own last step left, and when it
\* returns the session is as that handler alone would have left it.
C19_OnePipelineInFlight ==
    /\ [](Len(dispatch.running) <= 1)
    /\ [](\A k \in 1..Len(dispatch.running) :
              dispatch.running[k].mine = UserData(TELEGRAM_CHAT_ID))
    /\ [][\A k \in 1..Len(dispatch.running) :
              Returns(dispatch.running[k]) =>
                  UserData(TELEGRAM_CHAT_ID)' = Alone(dispatch.running[k])]_vars

C19_Witness ==
    /\ Len(dispatch.running) = 1
    /\ dispatch.running[1].update.cmd = "ask"
    /\ dispatch.running[1].pc = 2
    /\ dispatch.queue # <<>>


(* every block of the text is a whole assignment block *)
WholeBlocks(text, assignments) ==
    \A k \in 1..Len(text) :
        text[k].kind = "block" => text[k].len = line(assignments[text[k].of])

\* C20: the SMS message is at most max_len (1000) characters long, the
\* truncation marker included; when the untruncated text is longer than the
\* cap, the result ends at a complete assignment block followed by the 'more
\* not shown' marker.
C20_MessageWithinCap ==
    sms.formatted =>
        /\ TextLen(sms.message) <= max_len
        /\ TextLen(full_message(sms.assignments, sms.days_ahead)) > max_len =>
                /\ sms.message[Len(sms.message)].kind = "more"
                /\ WholeBlocks(sms.message, sms.assignments)

-----------------------------------------------------------------------------
(* The SMS sender: chunks and parts *)

Sent == sms.sent # None
Result == Get(sms.sent)

(* the body's blank-line-separated blocks, header included *)
Blocks(text) == split_blank(text, <<>>)

RECURSIVE BlocksOfAll(_)
BlocksOfAll(chunks) ==
    IF chunks = <<>> THEN <<>> ELSE Blocks(Head(chunks)) \o BlocksOfAll(Tail(chunks))

(* a part without its "(i/N)" line *)
Unnumbered(text) ==
    IF text # <<>> /\ text[1].kind = "part" THEN SubSeq(text, 3, Len(text)) ELSE text

PartTexts(mails) == [i \in 1 .. Len(mails) |-> Unnumbered(mails[i].text)]

(* C21: the chunker never splits a block: the blocks of the chunks, chunk   *)
(* after chunk, are the blocks of the body in the body's order, so each     *)
(* block lies in exactly one chunk; the chunks joined by blank lines are    *)
(* the body; and the parts sent, without their part numbers, are the chunks *)
C21_ChunksKeepBlocks ==
    (Sent /\ sms.message # <<>>) =>
        /\ BlocksOfAll(Result.chunks) = Blocks(sms.message)
        /\ blank_join(Result.chunks) = sms.message
        /\ \A i \in 1 .. Len(Result.mails) :
                Unnumbered(Result.mails[i].text) = Result.chunks[i]
        /\ Result.returned => blank_join(PartTexts(Result.mails)) = sms.message

(* three parts were sent, one of them holding two blocks *)
C21_Witness ==
    /\ Sent
    /\ Result.returned
    /\ Len(Result.mails) = 3
    /\ \E i \in 1 .. 3 : Len(Blocks(Result.chunks[i])) = 2

(* C25: the header stays with the first assignment block: when the body has *)
(* an assignment block, the first chunk holds the header and that block,    *)
(* whatever the block's length                                              *)
C25_HeaderWithFirstBlock ==
    (Sent /\ Result.returned /\ Len(Blocks(sms.message)) >= 2) =>
        LET first == Blocks(Unnumbered(Result.mails[1].text))
        IN  /\ Len(first) >= 2
            /\ SubSeq(first, 1, 2) = SubSeq(Blocks(sms.message), 1, 2)

AllParts(mails) == \A i \in 1 .. Len(mails) : mails[i].delivered

(* C29: the parts go out in increasing order, each handed to sendmail at    *)
(* most once; after a part that fails nothing more is attempted and the     *)
(* function returns False, whatever was delivered before; it returns True   *)
(* only if every chunk was sent; an empty body returns False unconnected    *)
C29_PartsInOrderNoRetry ==
    Sent =>
        /\ Len(Result.mails) <= Len(Result.chunks)
        /\ \A i \in 1 .. Len(Result.mails) :
                /\ Result.mails[i].part = i
                /\ Result.mails[i].text = numbered(Result.chunks[i], i, Len(Result.chunks))
                /\ ~Result.mails[i].delivered => (i = Len(Result.mails) /\ ~Result.returned)
        /\ Result.returned =>
                (Len(Result.mails) = Len(Result.chunks) /\ AllParts(Result.mails))
        /\ sms.message = <<>> =>
                (~Result.connected /\ ~Result.returned /\ Result.mails = <<>>)

(* of three parts the first was delivered and the second failed *)
C29_Witness ==
    /\ Sent
    /\ Len(Result.chunks) = 3
    /\ Len(Result.mails) = 2
    /\ Result.mails[1].delivered
    /\ ~Result.mails[2].delivered
    /\ ~Result.returned

-----------------------------------------------------------------------------
(* The list view: escaping and the course shown *)

Rendered == Get(view.rendered)

(* read as markup, every reserved character and every backslash of the field
   stands behind a backslash of its own, and no backslash is left over at
   the end to take the markup character that follows the field *)
RECURSIVE WellEscaped(_)
WellEscaped(field) ==
    IF field = <<>> THEN TRUE
    ELSE IF Head(field) = Backslash THEN Len(field) >= 2 /\ WellEscaped(Tail(Tail(field)))
    ELSE Head(field) \notin escape_chars /\ WellEscaped(Tail(field))

(* C22: the title and the shortened course name stand in the list view      *)
(* escaped: every reserved character behind its own backslash, and no       *)
(* field ending in an unpaired backslash (the cut at 25 characters must not *)
(* go through an escape pair)                                               *)
C22_FieldsEscaped ==
    view.rendered # None =>
        /\ WellEscaped(Rendered.assignment_name)
        /\ WellEscaped(Rendered.course_short)

(* what the chat shows for an escaped field: the characters without their
   escaping backslashes *)
RECURSIVE Displayed(_)
Displayed(field) ==
    IF field = <<>> THEN <<>>
    ELSE IF Head(field) = Backslash
    THEN (IF Len(field) >= 2 THEN <<field[2]>> \o Displayed(Tail(Tail(field))) ELSE <<>>)
    ELSE <<Head(field)>> \o Displayed(Tail(field))

(* the last segment of the raw name after any " - " *)
LastSegment(course_name) ==
    LET parts == split(course_name, <<" ", "-", " ">>, <<>>) IN parts[Len(parts)]

(* C23: the course shown is the last segment after any " - " of the raw     *)
(* course name, cut to 25 characters of that raw segment; a name without    *)
(* the delimiter is shown whole, cut to 25 characters                       *)
C23_CourseShortened ==
    view.rendered # None =>
        Displayed(Rendered.course_short)
            = Take(LastSegment(view.course_name), course_short_len)

-----------------------------------------------------------------------------
(* Failure to send the list message *)

(* the run fetched its list and the send of the rendered list raised *)
ListSendFailed(run) ==
    /\ run.handler \in {"check", "scheduled"}
    /\ run.fetch = "returned"
    /\ run.outcome = "send_failed"

(* the formatted notice was attempted and raised *)
FormattedNoticeFailed(run) ==
    \/ run.handler = "check" /\ run.notices = 2
    \/ run.handler = "scheduled" /\ run.notice = "failed"

(* C24, as stated: a failed send of the list never leaves the handler or    *)
(* the job, an error notice is attempted, and a plain-text send follows a   *)
(* formatted notice that failed too                                         *)
C24_NoticeWithPlainFallback ==
    ListSendFailed(last_run) =>
        /\ ~last_run.escaped
        /\ last_run.notices >= 1
        /\ FormattedNoticeFailed(last_run) => last_run.notices = 2

(* C24: in /check a failed send of the list is caught and the formatted     *)
(* notice is attempted, then the plain-text one if the formatted one fails; *)
(* an exception leaves the handler only when the plain-text send fails as   *)
(* well.  In the scheduled run nothing leaves the job; a TelegramError is   *)
(* only logged, any other failure gets one formatted notice, and there is   *)
(* no plain-text fallback                                                   *)
C24_SendFailureHandled ==
    ListSendFailed(last_run) =>
        /\ last_run.handler = "check" =>
                /\ last_run.notices \in {1, 2}
                /\ last_run.escaped => last_run.notices = 2
        /\ last_run.handler = "scheduled" =>
                /\ ~last_run.escaped
                /\ last_run.notices = (IF last_run.exc = "TelegramError" THEN 0 ELSE 1)

(* a /check whose list and formatted notice failed and whose plain-text     *)
(* notice went out                                                          *)
C24_Witness ==
    /\ ListSendFailed(last_run)
    /\ last_run.handler = "check"
    /\ last_run.notices = 2
    /\ ~last_run.escaped

-----------------------------------------------------------------------------
(* What a failed /check and a scheduled run leave of the sessions *)

(* the step is a /check of user u whose aggregation raised *)
FailedCheck(u) ==
    /\ last_run'.handler = "check"
    /\ last_run'.user = u
    /\ last_run'.fetch = "raised"

(* C26, as stated: a /check whose aggregation raises leaves the session's   *)
(* index and conversation history exactly as they were                      *)
C26_FailedCheckLeavesSession ==
    [][\A u \in Users : FailedCheck(u) =>
            /\ last_assignments'[u] = last_assignments[u]
            /\ message_history'[u] = message_history[u]]_vars

(* C26: a /check whose aggregation raises leaves the session's index, and   *)
(* the list a later "details N" resolves against, exactly as they were; the *)
(* history is left as it was when the error notice goes out, and gains the  *)
(* error handler's one turn when the notice cannot be sent either           *)
C26_FailedCheckLeavesIndex ==
    [][\A u \in Users : FailedCheck(u) =>
            /\ last_assignments'[u] = last_assignments[u]
            /\ check_report'[u] = check_report[u]
            /\ ~last_run'.escaped => message_history'[u] = message_history[u]
            /\ last_run'.escaped =>
                    message_history'[u] =
                        add_message_to_history(message_history[u], "bot",
                                               "Error processing update")]_vars

(* a /check failed on a session that holds a list *)
C26_Witness ==
    /\ last_run.handler = "check"
    /\ last_run.fetch = "raised"
    /\ last_run.prev_size > 0
    /\ last_assignments[last_run.user] # EmptyDict
    /\ check_report[last_run.user] # None

(* the list of the session's last /check report, empty when there is none *)
CheckList(u) == IF check_report[u] = None THEN <<>> ELSE Get(check_report[u])

(* the step is a "details N" of user u, and it resolves N against list *)
ResolvesAgainst(u, list) ==
    /\ last_run'.prev_size = Len(list)
    /\ last_run'.outcome = (IF list = <<>> THEN "no_list"
                            ELSE IF last_run'.index \notin 1 .. Len(list) THEN "out_of_range"
                            ELSE IF last_run'.detail_msgs = 1 THEN "detail"
                            ELSE "fetching_failed")

(* C27: a scheduled run leaves every session's index and history as they    *)
(* were, whatever its outcome; and after a scheduled report has gone to a   *)
(* chat, "details N" from that chat resolves against the list of the user's *)
(* last /check, or reports that there is no list                            *)
C27_ScheduledLeavesSessions ==
    [][/\ last_run'.handler = "scheduled" =>
            /\ last_assignments' = last_assignments
            /\ message_history' = message_history
            /\ check_report' = check_report
       /\ \A u \in Users :
            (/\ last_run'.handler = "details"
             /\ last_run'.user = u
             /\ last_run'.outcome # "ignored"
             /\ last_report[u] # None
             /\ Get(last_report[u]).source = "scheduled")
                => ResolvesAgainst(u, CheckList(u))]_vars

(* after a /check that listed two assignments and a scheduled report that   *)
(* listed one, "details 2" was answered                                     *)
C27_Witness ==
    /\ last_run.handler = "details"
    /\ last_run.outcome = "detail"
    /\ last_run.index = 2
    /\ last_report[last_run.user] # None
    /\ Get(last_report[last_run.user]).source = "scheduled"
    /\ Len(Get(last_report[last_run.user]).assignments) = 1
    /\ Len(CheckList(last_run.user)) = 2

-----------------------------------------------------------------------------
(* The conversation history in the prompt of /ask *)

(* the step is an /ask of user u that reached the LLM call *)
AskedLlm(u) ==
    /\ last_run'.handler = "ask"
    /\ last_run'.user = u
    /\ last_run'.at_llm # <<>>

(* C28: the history placed in the prompt of an /ask holds neither the       *)
(* current question nor its "Thinking..." turn: these two are the turns of  *)
(* the history that follow it; and it holds only turns that were in the     *)
(* history before this /ask, in their order, whatever the length of that    *)
(* history                                                                  *)
C28_PromptHistoryIsPrior ==
    [][\A u \in Users : AskedLlm(u) =>
            /\ last_run'.prompt \o <<QuestionTurn, ThinkingTurn>> = last_run'.at_llm
            /\ IsSuffix(last_run'.prompt, message_history[u])
            /\ Len(last_run'.prompt)
                    = Min(Len(message_history[u]), MAX_HISTORY_MESSAGES - 2)]_vars

(* an /ask on a history at its bound: the prompt holds the bound less two   *)
(* turns, the oldest of them an answer                                      *)
C28_Witness ==
    /\ last_run.handler = "ask"
    /\ Len(last_run.at_llm) = MAX_HISTORY_MESSAGES
    /\ Len(last_run.prompt) = MAX_HISTORY_MESSAGES - 2
    /\ last_run.prompt[1] = AnswerTurn

====
